---- MODULE Spec2Model ----
(***************************************************************************)
(* Model of the motionshop edge functions: the relational store (users,    *)
(* inventory, purchase ledger, categories, items, audit tables) and the    *)
(* request handlers that read and write it.                                *)
(*                                                                         *)
(* A libsql write transaction is isolated and either commits whole or is   *)
(* rolled back whole, so a handler that does all its statements inside one *)
(* transaction is one atomic step.  Statements a handler runs directly on  *)
(* the client (outside a transaction) are separate steps, and each of them *)
(* is durable as soon as it has run.                                       *)
(*                                                                         *)
(* Any statement may fail (connection loss, constraint violation).  The    *)
(* failure is the input `fault` of a handler.                              *)
(***************************************************************************)
EXTENDS Integers, Sequences, FiniteSets, Bags, TLC

VARIABLES
  users,                 \* table users: row id = position, [user_id, credits]
  users_audit,           \* table users_audit (append-only log)
  inventory,             \* table inventory: a bag of rows
  purchase_transactions, \* table purchase_transactions: row id = position
  purchase_items,        \* table purchase_items
  purchases_audit,       \* table purchases_audit
  categories,            \* table categories: row id = position
  categories_audit,      \* table categories_audit
  items,                 \* table items: row id = position
  item_categories,       \* table item_categories: set of <<category_id, item_id>>
  items_audit,           \* table items_audit
  req,                   \* purchase handler invocations (their locals)
  reader,                \* inventory read invocations (their locals)
  recon,                 \* the update-inventory invocation and its payload
  adder,                 \* the add-item invocation (its locals)
  clients,               \* handlers whose ended invocations left a client open
  transactions,          \* handlers that returned with their transaction open
  resp                   \* the latest handler step: its request and its response

vars == <<users, users_audit, inventory, purchase_transactions, purchase_items,
          purchases_audit, categories, categories_audit, items,
          item_categories, items_audit, req, reader, recon, adder, clients,
          transactions, resp>>

shopTables == <<users, users_audit, inventory, purchase_transactions,
                purchase_items, purchases_audit>>
catalogTables == <<categories, categories_audit, items, item_categories,
                   items_audit>>

----------------------------------------------------------------------------
(* Bounds of the model *)

MaxReq == 2          \* concurrent purchase invocations
MaxUserAudit == 2    \* rows the users_audit log may reach
MaxEntries == 2      \* entries of a reconciliation payload, both arrays together
MaxCategories == 2   \* rows of the categories table
MaxItems == 4        \* rows of the items table
MaxReaders == 2      \* concurrent inventory read invocations

(* Input domains *)
UserIds == {1, 2}            \* external (forum) user ids
CreditInputs == {-5, 50}     \* update-credits amounts

(* Carts a purchase request may carry.  Items 1 and 2 are on sale, item 3 *)
(* is soft-deleted and item 4 does not exist.                             *)
Line(itemId, quantity, price) ==
  [item_id |-> itemId, quantity |-> quantity, price |-> price]

Carts ==
  { << >>,                                   \* no items
    <<Line(1, 1, 75)>>,
    <<Line(2, 2, 25)>>,
    <<Line(1, 1, 75), Line(2, 2, 25)>>,      \* total 125
    <<Line(1, 1, 25), Line(2, 2, 25)>>,      \* total 75, two items
    <<Line(2, 2, 25), Line(2, 1, 25)>>,      \* the same item on two lines
    <<Line(3, 1, 25)>>,                      \* a soft-deleted item
    <<Line(4, 1, 25)>>,                      \* an unknown item
    <<Line(2, 2, 25), Line(1, 0, 25)>> }     \* a line without quantity

(* Entries of a reconciliation payload.  A JSON number is kept in halves  *)
(* (half = 5 is 2.5); isNumber is typeof quantity === "number".           *)
Entry(itemId, half) == [item_id |-> itemId, half |-> half, isNumber |-> TRUE]

InventoryInputs ==
  { Entry(1, 5),                                      \* 2.5
    Entry(2, 2),                                      \* 1
    Entry(1, -1),                                     \* -0.5
    Entry(2, -2),                                     \* -1
    [item_id |-> 2, half |-> 0, isNumber |-> FALSE] } \* "many"

BagInputs ==
  { Entry(1, 2),                                      \* 1
    Entry(2, 4),                                      \* 2
    Entry(1, -2) }                                    \* -1

DefaultCredits == 100

(* The record kept of a handler step: the request it served (input), the  *)
(* response (status 0 while the handler has not answered yet), the message *)
(* of the error it caught, and whether a statement was made to fail        *)
Resp(op, input, status, error, fault, body) ==
  [op |-> op, input |-> input, status |-> status, error |-> error,
   fault |-> fault, body |-> body]

NoResp == Resp("none", {}, 0, "", FALSE, {})

----------------------------------------------------------------------------
(* Helpers over sequences *)

RECURSIVE SumSeq(_)
SumSeq(s) == IF s = << >> THEN 0 ELSE Head(s) + SumSeq(Tail(s))

SeqToSet(s) == {s[i] : i \in 1..Len(s)}

(* Sequences over S of length lo..hi *)
SeqsOf(S, lo, hi) == UNION {[1..n -> S] : n \in lo..hi}

----------------------------------------------------------------------------
(* users table *)

UserRows(userId) == {i \in 1..Len(users) : users[i].user_id = userId}

(* rows[0] of SELECT ... FROM users WHERE user_id = ? *)
FirstUserRow(userId) == CHOOSE i \in UserRows(userId) : \A j \in UserRows(userId) : i <= j

(* UPDATE users SET credits = ? WHERE user_id = ? *)
SetCreditsByUserId(us, userId, c) ==
  [i \in 1..Len(us) |-> IF us[i].user_id = userId
                          THEN [us[i] EXCEPT !.credits = c] ELSE us[i]]

(* UPDATE users SET credits = ? WHERE id = ? *)
SetCreditsById(us, id, c) == [us EXCEPT ![id].credits = c]

----------------------------------------------------------------------------
(* purchase: validation and pre-checks *)

LineTotal(item) == item.price * item.quantity

(* A total that forgets the quantities *)
TotalAmount_PricesOnly(cartItems) ==
  SumSeq([i \in 1..Len(cartItems) |-> cartItems[i].price])

(* items.reduce((sum, item) => sum + item.price * item.quantity, 0) *)
TotalAmount(cartItems) ==
  SumSeq([i \in 1..Len(cartItems) |-> LineTotal(cartItems[i])])

(* The message validatePurchaseData throws for one line, "" when none *)
LineError(item) ==
  IF item.item_id = 0 \/ item.quantity = 0 \/ item.price = 0
    THEN "Invalid item data at position"
  ELSE IF item.quantity <= 0 THEN "Invalid quantity for item at position"
  ELSE IF item.price <= 0 THEN "Invalid price for item at position"
  ELSE ""

(* A validation that looks at the structure and not at the lines *)
validatePurchaseData_StructureOnly(data) ==
  IF data.user_id = 0 \/ Len(data.items) = 0
    THEN "Invalid purchase data structure"
  ELSE ""

(* validatePurchaseData: the first message thrown, "" when the data pass *)
validatePurchaseData(data) ==
  IF data.user_id = 0 \/ Len(data.items) = 0
    THEN "Invalid purchase data structure"
  ELSE LET bad == {i \in 1..Len(data.items) : LineError(data.items[i]) # ""}
       IN IF bad = {} THEN ""
          ELSE LineError(data.items[CHOOSE i \in bad : \A j \in bad : i <= j])

(* A pre-check that only looks the user up *)
verifyUserCredits_NoBalanceCheck(userId, totalAmount) ==
  IF UserRows(userId) = {} THEN "User not found" ELSE ""

(* verifyUserCredits: the message thrown, "" when the user can pay *)
verifyUserCredits(userId, totalAmount) ==
  IF UserRows(userId) = {} THEN "User not found"
  ELSE IF users[FirstUserRow(userId)].credits < totalAmount
    THEN "Insufficient credits"
  ELSE ""

(* A verification that only looks whether the rows exist *)
verifyItems_ExistenceOnly(cartItems) ==
  LET itemIds == [i \in 1..Len(cartItems) |-> cartItems[i].item_id]
      foundItems == {id \in SeqToSet(itemIds) : id \in 1..Len(items)}
  IN IF Cardinality(foundItems) # Len(itemIds)
       THEN "One or more items not found"
     ELSE ""

(* verifyItems: the message thrown, "" when every item may be bought *)
verifyItems(cartItems) ==
  LET itemIds == [i \in 1..Len(cartItems) |-> cartItems[i].item_id]
      foundItems == {id \in SeqToSet(itemIds) : id \in 1..Len(items)}
  IN IF Cardinality(foundItems) # Len(itemIds)
       THEN "One or more items not found"
     ELSE IF \E id \in foundItems :
               items[id].is_active = 0 \/ items[id].is_deleted = 1
       THEN "Item is not available for purchase"
     ELSE ""

(* A catch block without the line for "Insufficient credits" *)
PurchaseStatus_NoInsufficient(message) ==
  IF message = "Method not allowed" THEN 405
  ELSE IF message = "One or more items not found" THEN 404
  ELSE IF message = "User not found" THEN 404
  ELSE IF message = "Invalid request data" THEN 400
  ELSE IF message = "Invalid API key" THEN 403
  ELSE 500

(* The status the purchase handler's catch block gives a message *)
PurchaseStatus(message) ==
  IF message = "Method not allowed" THEN 405
  ELSE IF message = "One or more items not found" THEN 404
  ELSE IF message = "User not found" THEN 404
  ELSE IF message = "Insufficient credits" THEN 400
  ELSE IF message = "Invalid request data" THEN 400
  ELSE IF message = "Invalid API key" THEN 403
  ELSE 500

----------------------------------------------------------------------------
(* inventory table: a bag of rows [user_id, item_id, total_quantity,       *)
(* quantity_in_bag]; the code never relies on a key of the table           *)

InvRow(userId, itemId, total, inBag) ==
  [user_id |-> userId, item_id |-> itemId, total_quantity |-> total,
   quantity_in_bag |-> inBag]

(* SELECT ... FROM inventory WHERE user_id = ? AND item_id = ? *)
InventoryRows(inv, userId, itemId) ==
  {row \in BagToSet(inv) : row.user_id = userId /\ row.item_id = itemId}

RECURSIVE SumCopies(_, _)
SumCopies(inv, rows) ==
  IF rows = {} THEN 0
  ELSE LET row == CHOOSE x \in rows : TRUE
       IN inv[row] + SumCopies(inv, rows \ {row})

(* The bag of the rows of inv, each replaced by f[row] *)
MapRows(inv, f) ==
  LET image == {f[row] : row \in BagToSet(inv)}
  IN [x \in image |-> SumCopies(inv, {row \in BagToSet(inv) : f[row] = x})]

(* UPDATE inventory SET total_quantity = ? WHERE user_id = ? AND item_id = ? *)
SetTotalQuantity(inv, userId, itemId, total) ==
  MapRows(inv, [row \in BagToSet(inv) |->
                 IF row.user_id = userId /\ row.item_id = itemId
                   THEN [row EXCEPT !.total_quantity = total] ELSE row])

(* One pass of the purchase loop over a cart line: the inventories it may  *)
(* leave.  rows[0] of the check is any of the matching rows.               *)
UpsertInventory(inv, userId, item) ==
  LET rows == InventoryRows(inv, userId, item.item_id)
  IN IF rows # {}
       THEN {SetTotalQuantity(inv, userId, item.item_id,
                              row.total_quantity + item.quantity) : row \in rows}
       ELSE {inv (+) SetToBag({InvRow(userId, item.item_id, item.quantity, 0)})}

(* The purchase loop over the whole cart *)
RECURSIVE UpsertAll(_, _, _)
UpsertAll(inv, userId, cartItems) ==
  IF cartItems = << >> THEN {inv}
  ELSE UNION {UpsertAll(next, userId, Tail(cartItems)) :
                next \in UpsertInventory(inv, userId, Head(cartItems))}

----------------------------------------------------------------------------
(* purchase handler *)

Idle == [pc |-> "idle", user_id |-> 0, items |-> << >>, userCredits |-> 0]
Done == [pc |-> "done", user_id |-> 0, items |-> << >>, userCredits |-> 0]

Pending(data) == Resp("purchase", data, 0, "", FALSE, {})
PurchaseError(data, message, fault) ==
  Resp("purchase", data, PurchaseStatus(message), message, fault, {})

PurchaseData(r) == [user_id |-> req[r].user_id, items |-> req[r].items]

(* A transaction that reads the balance again instead of using its argument *)
CreditsBefore_ReadAgain(r) == users[FirstUserRow(req[r].user_id)].credits

(* The credits the debiting transaction starts from: the value the        *)
(* pre-check returned, handed over as the argument userCredits            *)
CreditsBefore(r) == req[r].userCredits

(* The request is read and validated, then verifyUserCredits runs *)
PurchaseCheckCredits(r) ==
  /\ req[r].pc = "idle"
  /\ \E userId \in UserIds, cartItems \in Carts :
       LET data == [user_id |-> userId, items |-> cartItems]
           invalid == validatePurchaseData(data)
           refused == verifyUserCredits(userId, TotalAmount(cartItems))
       IN IF invalid # ""
            THEN /\ req' = [req EXCEPT ![r] = Done]
                 /\ resp' = PurchaseError(data, invalid, FALSE)
          ELSE IF refused # ""
            THEN /\ req' = [req EXCEPT ![r] = Done]
                 /\ resp' = PurchaseError(data, refused, FALSE)
          ELSE /\ req' = [req EXCEPT ![r] =
                           [pc |-> "creditsChecked", user_id |-> userId,
                            items |-> cartItems,
                            userCredits |-> users[FirstUserRow(userId)].credits]]
               /\ resp' = Pending(data)
  /\ UNCHANGED <<shopTables, catalogTables, reader, recon, adder, clients, transactions>>

(* verifyItems runs *)
PurchaseVerifyItems(r) ==
  /\ req[r].pc = "creditsChecked"
  /\ LET refused == verifyItems(req[r].items)
     IN IF refused # ""
          THEN /\ req' = [req EXCEPT ![r] = Done]
               /\ resp' = PurchaseError(PurchaseData(r), refused, FALSE)
          ELSE /\ req' = [req EXCEPT ![r].pc = "itemsVerified"]
               /\ resp' = Pending(PurchaseData(r))
  /\ UNCHANGED <<shopTables, catalogTables, reader, recon, adder, clients, transactions>>

(* Rows whose price is read from the items table *)
PurchaseItemRows_LivePrice(transactionId, cartItems) ==
  [i \in 1..Len(cartItems) |->
    [transaction_id |-> transactionId,
     item_id |-> cartItems[i].item_id,
     quantity |-> cartItems[i].quantity,
     item_price |-> items[cartItems[i].item_id].price]]

(* INSERT INTO purchase_items, one row for each line of the cart *)
PurchaseItemRows(transactionId, cartItems) ==
  [i \in 1..Len(cartItems) |->
    [transaction_id |-> transactionId,
     item_id |-> cartItems[i].item_id,
     quantity |-> cartItems[i].quantity,
     item_price |-> cartItems[i].price]]

(* processPurchaseTransaction: one transaction, committed or rolled back *)
processPurchaseTransaction(userId, cartItems, userCredits, fault) ==
  LET data == [user_id |-> userId, items |-> cartItems]
      totalAmount == TotalAmount(cartItems)
      creditsAfter == userCredits - totalAmount
      transactionId == Len(purchase_transactions) + 1
  IN IF fault
       THEN /\ resp' = PurchaseError(data, "Statement failed", TRUE)
            /\ UNCHANGED shopTables
       ELSE /\ purchase_transactions' = Append(purchase_transactions,
                 [user_id |-> userId, credits_before |-> userCredits,
                  credits_after |-> creditsAfter,
                  total_credits_spent |-> totalAmount])
            /\ purchase_items' = purchase_items \o
                 PurchaseItemRows(transactionId, cartItems)
            /\ inventory' \in UpsertAll(inventory, userId, cartItems)
            /\ users' = SetCreditsByUserId(users, userId, creditsAfter)
            /\ purchases_audit' = Append(purchases_audit,
                 [transaction_id |-> transactionId, user_id |-> userId,
                  credits_before |-> userCredits, credits_after |-> creditsAfter,
                  total_credits_spent |-> totalAmount,
                  items_purchased |-> cartItems])
            /\ resp' = Resp("purchase", data, 200, "", FALSE,
                 [transaction_id |-> transactionId,
                  credits_spent |-> totalAmount,
                  credits_remaining |-> creditsAfter,
                  items_purchased |-> Len(cartItems)])
            /\ UNCHANGED users_audit

PurchaseCommit(r) ==
  /\ req[r].pc = "itemsVerified"
  /\ \E fault \in BOOLEAN :
       processPurchaseTransaction(req[r].user_id, req[r].items,
                                  CreditsBefore(r), fault)
  /\ req' = [req EXCEPT ![r] = Done]
  /\ UNCHANGED <<catalogTables, reader, recon, adder, clients, transactions>>

(* The purchase handler run from the request to the response with no      *)
(* other request in between                                               *)
Purchase(userId, cartItems) ==
  /\ \E fault \in BOOLEAN :
       LET data == [user_id |-> userId, items |-> cartItems]
           invalid == validatePurchaseData(data)
           refused == verifyUserCredits(userId, TotalAmount(cartItems))
           unavailable == verifyItems(cartItems)
       IN IF invalid # "" \/ refused # "" \/ unavailable # ""
            THEN /\ resp' = PurchaseError(data,
                        IF invalid # "" THEN invalid
                        ELSE IF refused # "" THEN refused ELSE unavailable,
                        FALSE)
                 /\ UNCHANGED shopTables
            ELSE processPurchaseTransaction(userId, cartItems,
                        users[FirstUserRow(userId)].credits, fault)
  /\ UNCHANGED <<catalogTables, req, reader, recon, adder, clients, transactions>>

----------------------------------------------------------------------------
(* update-credits handler *)

(* validateRequestData of update-credits: the message thrown, "" if none *)
validateCreditsData(data) ==
  IF data.credits < 0 THEN "Invalid credits amount" ELSE ""

UpdateCreditsStatus(message) ==
  IF message \in {"API key is required", "Invalid API key"} THEN 403
  ELSE IF message = "Method not allowed" THEN 405
  ELSE IF message \in {"user_id is required", "Invalid user_id",
                       "credits is required", "Invalid credits amount",
                       "Credits cannot be negative", "Invalid request data"}
    THEN 400
  ELSE IF message = "User not found" THEN 404
  ELSE 500

UpdateCreditsError(data, message, fault) ==
  Resp("update-credits", data, UpdateCreditsStatus(message), message, fault, {})

(* updateUserCredits: one transaction *)
updateUserCredits(data, userId, newCredits, fault) ==
  IF UserRows(userId) = {}
    THEN /\ resp' = UpdateCreditsError(data, "User not found", FALSE)
         /\ UNCHANGED <<users, users_audit>>
  ELSE IF newCredits < 0
    THEN /\ resp' = UpdateCreditsError(data, "Credits cannot be negative", FALSE)
         /\ UNCHANGED <<users, users_audit>>
  ELSE IF fault
    THEN /\ resp' = UpdateCreditsError(data, "Statement failed", TRUE)
         /\ UNCHANGED <<users, users_audit>>
  ELSE LET id == FirstUserRow(userId)
       IN /\ users' = SetCreditsById(users, id, newCredits)
          /\ users_audit' = Append(users_audit,
               [user_id |-> id, action_type |-> "UPDATE",
                old_values |-> [credits |-> users[id].credits],
                new_values |-> [credits |-> newCredits]])
          /\ resp' = Resp("update-credits", data, 200, "", FALSE,
                          [user_id |-> userId, credits |-> newCredits])

(* The handler on amounts already numbers; its client is followed in       *)
(* UpdateCreditsRequest                                                    *)
UpdateCredits ==
  /\ Len(users_audit) < MaxUserAudit
  /\ \E userId \in UserIds, credits \in CreditInputs, fault \in BOOLEAN :
       LET data == [user_id |-> userId, credits |-> credits]
           invalid == validateCreditsData(data)
       IN IF invalid # ""
            THEN /\ resp' = UpdateCreditsError(data, invalid, FALSE)
                 /\ UNCHANGED <<users, users_audit>>
            ELSE updateUserCredits(data, userId, credits, fault)
  /\ UNCHANGED <<inventory, purchase_transactions, purchase_items,
                 purchases_audit, catalogTables, req, reader, recon, adder, clients, transactions>>

(* The same handler on the text of the request body's credits field *)
MaxCreditUpdates == 2    \* UPDATE rows of users_audit

CreditTexts == {"50", "0", "-5", "abc", "12abc"}

(* parseFloat(credits): the leading number of the text, none for NaN *)
parseFloat(text) ==
  IF text = "50" THEN <<50>>
  ELSE IF text = "0" THEN <<0>>
  ELSE IF text = "-5" THEN <<-5>>
  ELSE IF text = "12abc" THEN <<12>>
  ELSE << >>

(* validateRequestData: isNaN(sanitizedCredits) || sanitizedCredits < 0 *)
validateRequestData_AcceptsNegative(text) ==
  IF parseFloat(text) = << >> THEN "Invalid credits amount" ELSE ""

validateRequestData(text) ==
  IF parseFloat(text) = << >> THEN "Invalid credits amount"
  ELSE IF parseFloat(text)[1] < 0 THEN "Invalid credits amount"
  ELSE ""

CreditUpdates ==
  Cardinality({n \in 1..Len(users_audit) : users_audit[n].action_type = "UPDATE"})

UpdateCreditsRequest ==
  /\ CreditUpdates < MaxCreditUpdates
  /\ \E userId \in UserIds, credits \in CreditTexts, fault \in BOOLEAN :
       LET data == [user_id |-> userId, credits |-> credits]
           invalid == validateRequestData(credits)
       IN IF invalid # ""
            THEN /\ resp' = UpdateCreditsError(data, invalid, FALSE)
                 /\ UNCHANGED <<users, users_audit, clients>>
            ELSE \* createTursoClient(); the handler has no finally block
                 /\ updateUserCredits(data, userId, parseFloat(credits)[1], fault)
                 /\ clients' = clients \cup {"update-credits"}
  /\ UNCHANGED <<inventory, purchase_transactions, purchase_items,
                 purchases_audit, catalogTables, req, reader, recon, adder,
                 transactions>>

----------------------------------------------------------------------------
(* update-inventory handler (reconciliation) *)

(* parseInt(n, 10) of a number given in halves: its integer part *)
ParseInt(half) == IF half >= 0 THEN half \div 2 ELSE -((-half) \div 2)

(* The payloads a request may carry: at most MaxEntries entries in all *)
Payloads(userIds) ==
  UNION {{[user_id |-> u, inventory |-> inv, bag |-> bag] :
            u \in userIds,
            inv \in [1..n -> InventoryInputs],
            bag \in SeqsOf(BagInputs, 0, MaxEntries - n)} : n \in 0..MaxEntries}

NoPayload == [user_id |-> 0, inventory |-> << >>, bag |-> << >>]

(* validateInventoryData: the message thrown, "" when the data pass *)
validateInventoryData(data) ==
  IF data.user_id = 0 THEN "Invalid data structure"
  ELSE IF \E i \in 1..Len(data.inventory) :
            data.inventory[i].item_id = 0 \/ ~data.inventory[i].isNumber
    THEN "Invalid inventory item data"
  ELSE IF \E i \in 1..Len(data.bag) :
            data.bag[i].item_id = 0 \/ ~data.bag[i].isNumber
    THEN "Invalid bag item data"
  ELSE ""

(* bag.find(b => b.item_id === item.item_id): quantityInBag of an entry *)
QuantityInBag(bag, item) ==
  LET found == {i \in 1..Len(bag) : bag[i].item_id = item.item_id}
  IN IF found = {} THEN 0
     ELSE ParseInt(bag[CHOOSE i \in found : \A j \in found : i <= j].half)

(* The checks of the loop body without the comparison of bag and total *)
EntryError_NoBagLimit(bag, item) ==
  IF ParseInt(item.half) < 0 THEN "Invalid total quantity"
  ELSE IF QuantityInBag(bag, item) < 0 THEN "Invalid bag quantity"
  ELSE ""

(* The checks of the loop body for one entry: the message thrown, or "" *)
EntryError(bag, item) ==
  IF ParseInt(item.half) < 0 THEN "Invalid total quantity"
  ELSE IF QuantityInBag(bag, item) < 0 THEN "Invalid bag quantity"
  ELSE IF QuantityInBag(bag, item) > ParseInt(item.half)
    THEN "Bag quantity exceeds total quantity"
  ELSE ""

(* An incremental update: no row is deleted *)
DeleteInventoryOf_Nothing(inv, userId) == inv

(* DELETE FROM inventory WHERE user_id = ? *)
DeleteInventoryOf(inv, userId) ==
  LET keep == {row \in BagToSet(inv) : row.user_id # userId}
  IN [row \in keep |-> inv[row]]

(* The rows the loop inserts for the entries, in a bag *)
RECURSIVE InsertEntries(_, _, _, _)
InsertEntries(inv, userId, entries, bag) ==
  IF entries = << >> THEN inv
  ELSE InsertEntries(
         inv (+) SetToBag({InvRow(userId, Head(entries).item_id,
                                  ParseInt(Head(entries).half),
                                  QuantityInBag(bag, Head(entries)))}),
         userId, Tail(entries), bag)

UpdateInventoryStatus(message) ==
  IF message = "Method not allowed" THEN 405
  ELSE IF message = "Invalid request data" THEN 400
  ELSE IF message = "Invalid API key" THEN 403
  ELSE 500

UpdateInventoryError(message, fault) ==
  Resp("update-inventory", {}, UpdateInventoryStatus(message), message, fault, {})

(* processInventoryUpdate: one transaction *)
processInventoryUpdate(userId, entries, bag, fault) ==
  LET bad == {i \in 1..Len(entries) : EntryError(bag, entries[i]) # ""}
  IN IF bad # {}
       THEN /\ resp' = UpdateInventoryError(
                   EntryError(bag, entries[CHOOSE i \in bad : \A j \in bad : i <= j]),
                   FALSE)
            /\ UNCHANGED inventory
     ELSE IF fault
       THEN /\ resp' = UpdateInventoryError("Statement failed", TRUE)
            /\ UNCHANGED inventory
     ELSE /\ inventory' = InsertEntries(DeleteInventoryOf(inventory, userId),
                                        userId, entries, bag)
          /\ resp' = Resp("update-inventory", {}, 200, "", FALSE,
                          "Inventario y bolsa actualizados correctamente.")

(* A request arrives: request.json() *)
UpdateInventoryReceive(data) ==
  /\ recon.pc = "idle"
  /\ recon' = [pc |-> "received", data |-> data]
  /\ resp' = Resp("update-inventory", {}, 0, "", FALSE, {})
  /\ UNCHANGED <<shopTables, catalogTables, req, reader, adder, clients, transactions>>

(* The handler validates the payload and runs processInventoryUpdate *)
UpdateInventory ==
  /\ recon.pc = "received"
  /\ \E fault \in BOOLEAN :
       LET data == recon.data
           invalid == validateInventoryData(data)
       IN IF invalid # ""
            THEN /\ resp' = UpdateInventoryError(invalid, FALSE)
                 /\ UNCHANGED inventory
            ELSE processInventoryUpdate(data.user_id, data.inventory, data.bag, fault)
  /\ recon' = [pc |-> "idle", data |-> NoPayload]
  /\ UNCHANGED <<users, users_audit, purchase_transactions, purchase_items,
                 purchases_audit, catalogTables, req, reader, adder, clients, transactions>>

(* The same handler with the first statement of its transaction as a step *)
(* of its own: validateInventoryData, then tx.execute(DELETE ...), whose   *)
(* effect stays inside the open transaction                                *)
UpdateInventoryDelete ==
  /\ recon.pc = "received"
  /\ \E fault \in BOOLEAN :
       LET invalid == validateInventoryData(recon.data)
       IN IF invalid # ""
            THEN /\ resp' = UpdateInventoryError(invalid, FALSE)
                 /\ recon' = [pc |-> "idle", data |-> NoPayload]
          ELSE IF fault
            THEN /\ resp' = UpdateInventoryError("Statement failed", TRUE)
                 /\ recon' = [pc |-> "idle", data |-> NoPayload]
          ELSE /\ recon' = [recon EXCEPT !.pc = "deleted"]
               /\ UNCHANGED resp
  /\ UNCHANGED <<shopTables, catalogTables, req, reader, adder, clients, transactions>>

(* The loop over the entries, then commit or rollback *)
UpdateInventoryInsert ==
  /\ recon.pc = "deleted"
  /\ \E fault \in BOOLEAN :
       processInventoryUpdate(recon.data.user_id, recon.data.inventory,
                              recon.data.bag, fault)
  /\ recon' = [pc |-> "idle", data |-> NoPayload]
  /\ UNCHANGED <<users, users_audit, purchase_transactions, purchase_items,
                 purchases_audit, catalogTables, req, reader, adder, clients, transactions>>

----------------------------------------------------------------------------
(* Catalog: categories and items with their audit tables *)

AdminIds == {7}

(* Names a request may carry; "" is an absent field *)
NameInputs == {"", "hats", "c&ps "}

(* A row inserted as inactive *)
CategoryRow_Inactive(name) == [name |-> name, is_active |-> 0, is_deleted |-> 0]

(* INSERT INTO categories (name, ..., is_active, is_deleted, ...) VALUES (?, ..., 1, 0, ...) *)
CategoryRow(name) == [name |-> name, is_active |-> 1, is_deleted |-> 0]

(* JSON.stringify of the value of an integer column, as it stands in a    *)
(* response body                                                           *)
Stringify(n) == IF n = 1 THEN "1" ELSE IF n = 0 THEN "0" ELSE "n"

AuditRow(key, id, userId, action, old, new) ==
  [k \in {key, "user_id", "action_type", "old_values", "new_values"} |->
     IF k = key THEN id
     ELSE IF k = "user_id" THEN userId
     ELSE IF k = "action_type" THEN action
     ELSE IF k = "old_values" THEN old ELSE new]

(* add-category.js, JSON handler --------------------------------------- *)

(* String(name).replace(/[^a-zA-Z0-9 ]/g, "") *)
sanitizeName(name) == IF name = "c&ps " THEN "cps " ELSE name

(* validateRequestData: the message thrown, "" when the data pass *)
validateCategoryRequest(data) ==
  IF data.name = "" \/ data.user_id = 0
    THEN "Missing required fields: name, image, api_key, and user_id"
  ELSE ""

InsertCategoryStatus(message) ==
  IF message = "Method not allowed" THEN 405
  ELSE IF message = "Missing required fields: name, image, api_key, and user_id"
    THEN 400
  ELSE IF message = "Invalid API key" THEN 403
  ELSE 500

(* insertCategory and getCategoryById: statements on the client, each     *)
(* durable when it returns.  fault names the statement that fails.        *)
insertCategory(data, name, userId, fault) ==
  LET newCategoryId == Len(categories) + 1
      failed == Resp("add-category", data, 500, "Statement failed", TRUE, {})
  IN IF fault = "insert"
       THEN /\ resp' = failed
            /\ UNCHANGED <<categories, categories_audit>>
     ELSE IF fault = "audit"
       THEN /\ categories' = Append(categories, CategoryRow(name))
            /\ resp' = failed
            /\ UNCHANGED categories_audit
     ELSE /\ categories' = Append(categories, CategoryRow(name))
          /\ categories_audit' = Append(categories_audit,
               AuditRow("category_id", newCategoryId, userId, "INSERT", "null",
                        [name |-> name, is_active |-> TRUE]))
          /\ resp' = Resp("add-category", data, 201, "", FALSE, {newCategoryId})

InsertCategoryHandler ==
  /\ Len(categories) < MaxCategories
  /\ \E name \in NameInputs, userId \in AdminIds \cup {0},
        fault \in {"none", "insert", "audit"} :
       LET data == [name |-> name, user_id |-> userId]
           invalid == validateCategoryRequest(data)
       IN IF invalid # ""
            THEN /\ resp' = Resp("add-category", data,
                                 InsertCategoryStatus(invalid), invalid, FALSE, {})
                 /\ UNCHANGED <<categories, categories_audit>>
            ELSE insertCategory(data, sanitizeName(name), userId, fault)
  /\ UNCHANGED <<shopTables, items, item_categories, items_audit, req, reader, recon, adder, clients, transactions>>

(* add-category.js, form handler (the image is taken as a valid file) --- *)

(* validator.escape(validator.trim(name)) *)
escapeTrimName(name) == IF name = "c&ps " THEN "c&amp;ps" ELSE name

AddCategoryStatus(message) ==
  IF message = "Method not allowed" THEN 405
  ELSE IF message \in {"Fields 'name', 'image', and 'user_id' are required",
                       "Invalid request data", "Invalid user ID"} THEN 400
  ELSE IF message = "Invalid API key" THEN 403
  ELSE 500

(* addCategory: one transaction *)
addCategory(data, name, userId, fault) ==
  LET newCategoryId == Len(categories) + 1
  IN IF fault
       THEN /\ resp' = Resp("add-category-form", data, 500, "Statement failed", TRUE, {})
            /\ UNCHANGED <<categories, categories_audit>>
     ELSE /\ categories' = Append(categories, CategoryRow(name))
          /\ categories_audit' = Append(categories_audit,
               AuditRow("category_id", newCategoryId, userId, "INSERT", "null",
                        [id |-> newCategoryId, name |-> name,
                         is_active |-> CategoryRow(name).is_active]))
          /\ resp' = Resp("add-category-form", data, 201, "", FALSE,
                          [id |-> newCategoryId, name |-> name,
                           is_active |-> Stringify(CategoryRow(name).is_active)])

AddCategoryHandler ==
  /\ Len(categories) < MaxCategories
  /\ \E name \in NameInputs, userId \in AdminIds \cup {0}, fault \in BOOLEAN :
       LET data == [name |-> name, user_id |-> userId]
           required == "Fields 'name', 'image', and 'user_id' are required"
       IN IF name = "" \/ userId = 0 \/ escapeTrimName(name) = ""
            THEN /\ resp' = Resp("add-category-form", data,
                                 AddCategoryStatus(required), required, FALSE, {})
                 /\ UNCHANGED <<categories, categories_audit>>
            ELSE addCategory(data, escapeTrimName(name), userId, fault)
  /\ UNCHANGED <<shopTables, items, item_categories, items_audit, req, reader, recon, adder, clients, transactions>>

(* add-item.js ----------------------------------------------------------- *)

(* Fields a request may carry; "" is an absent name *)
ItemNameInputs == {"", "c&ps "}
PriceInputs == {25, -5}
CategoryLists == {<<1>>, <<2>>, <<1, 2>>, <<1, 1>>}

AdderIdle == [pc |-> "idle"]

AddItemStatus(message) ==
  IF message = "Method not allowed" THEN 405
  ELSE IF message \in
       {"All fields are required: name, description, image, price, categories, and user_id",
        "Invalid request data", "Categories not found",
        "Invalid price or user ID", "Invalid category ID format"} THEN 400
  ELSE IF message = "Invalid API key" THEN 403
  ELSE 500

(* The handler's field check, sanitizeData and validateRequestData: the   *)
(* message thrown, "" when the data pass                                  *)
validateItemRequest(data) ==
  IF data.name = "" \/ data.categories = << >> \/ data.user_id = 0
    THEN "All fields are required: name, description, image, price, categories, and user_id"
  ELSE IF data.price < 0 THEN "Price cannot be negative"
  ELSE IF escapeTrimName(data.name) = ""
    THEN "All fields are required: name, description, image, price, categories, and user_id"
  ELSE ""

(* validateCategoriesExist: SELECT id FROM categories WHERE id IN (...)    *)
(* AND is_deleted = 0 must return as many rows as ids were given           *)
validateCategoriesExist(categoryIds) ==
  LET found == {c \in SeqToSet(categoryIds) :
                  c \in 1..Len(categories) /\ categories[c].is_deleted = 0}
  IN IF Cardinality(found) # Len(categoryIds) THEN "Categories not found" ELSE ""

(* The handler up to validateCategoriesExist, which reads on the client    *)
(* before the first statement of the transaction                           *)
AddItemValidate ==
  /\ adder.pc = "idle"
  /\ Len(items) < MaxItems
  /\ \E name \in ItemNameInputs, price \in PriceInputs,
        categoryIds \in CategoryLists, userId \in AdminIds :
       LET data == [name |-> name, price |-> price, categories |-> categoryIds,
                    user_id |-> userId]
           invalid == validateItemRequest(data)
           missing == validateCategoriesExist(categoryIds)
           message == IF invalid # "" THEN invalid ELSE missing
       IN /\ IF message # ""
               THEN /\ resp' = Resp("add-item", data, AddItemStatus(message),
                                    message, FALSE, {})
                    /\ UNCHANGED adder
               ELSE /\ adder' = [pc |-> "validated",
                                 data |-> [data EXCEPT
                                             !.name = escapeTrimName(name)]]
                    /\ resp' = Resp("add-item", data, 0, "", FALSE, {})
          \* createClient follows the field validation; nothing closes it
          /\ clients' = IF invalid = "" THEN clients \cup {"add-item"}
                         ELSE clients
  /\ UNCHANGED <<shopTables, catalogTables, req, reader, recon, transactions>>

(* addItem after the validation: one transaction *)
addItem(data, fault) ==
  LET newItemId == Len(items) + 1
  IN IF fault
       THEN /\ resp' = Resp("add-item", data, 500, "Statement failed", TRUE, {})
            /\ UNCHANGED <<items, item_categories, items_audit>>
     ELSE /\ items' = Append(items, [name |-> data.name, price |-> data.price,
                                     is_active |-> 1, is_deleted |-> 0])
          /\ item_categories' = item_categories \cup
               {<<data.categories[n], newItemId>> : n \in 1..Len(data.categories)}
          /\ items_audit' = Append(items_audit,
               AuditRow("item_id", newItemId, data.user_id, "INSERT", "null",
                        [name |-> data.name, price |-> data.price,
                         categories |-> data.categories]))
          /\ resp' = Resp("add-item", data, 201, "", FALSE,
                          [id |-> newItemId,
                           categories |-> SeqToSet(data.categories)])

AddItemCommit ==
  /\ adder.pc = "validated"
  /\ \E fault \in BOOLEAN : addItem(adder.data, fault)
  /\ adder' = AdderIdle
  /\ UNCHANGED <<shopTables, categories, categories_audit, req, reader, recon,
                 clients, transactions>>

(* delete-category.js, cascading handler ------------------------------- *)

DeleteCategoryStatus(message) ==
  IF message = "Method not allowed" THEN 405
  ELSE IF message \in {"All fields are required: id and user_id",
                       "Category is already deleted", "Invalid ID or user ID"}
    THEN 400
  ELSE IF message = "Category not found" THEN 404
  ELSE IF message \in {"API key is required", "Invalid API key"} THEN 403
  ELSE 500

(* A cascade that takes every item of the category *)
ItemsToDelete_EveryItemOfCategory(id) ==
  {i \in 1..Len(items) : <<id, i>> \in item_categories /\ items[i].is_deleted = 0}

(* The items that have this category and no other, and are not deleted *)
ItemsToDelete(id) ==
  {i \in 1..Len(items) :
     /\ <<id, i>> \in item_categories
     /\ Cardinality({c \in 1..Len(categories) : <<c, i>> \in item_categories}) = 1
     /\ items[i].is_deleted = 0}

(* The audit rows of the cascade, one per item, in the order of the ids *)
RECURSIVE ItemDeleteAudits(_, _)
ItemDeleteAudits(itemIds, userId) ==
  IF itemIds = {} THEN << >>
  ELSE LET i == CHOOSE x \in itemIds : \A y \in itemIds : x <= y
       IN <<AuditRow("item_id", i, userId, "DELETE",
                     [is_active |-> items[i].is_active = 1,
                      is_deleted |-> items[i].is_deleted = 0],
                     [is_active |-> FALSE, is_deleted |-> TRUE])>>
          \o ItemDeleteAudits(itemIds \ {i}, userId)

(* catch (error) { await tx.rollback(); throw error; }: the error that    *)
(* leaves the function, the rollback's own when the rollback fails        *)
RollbackThenThrow(error, rollbackFault) ==
  IF rollbackFault THEN "Rollback failed" ELSE error

(* catch (error) { try { await tx.rollback(); } catch (rollbackError) {   *)
(* console.error(...) } throw error; }                                    *)
RollbackLoggedThenThrow(error, rollbackFault) == error

(* softDeleteCategory: one transaction *)
softDeleteCategory(data, id, userId, fault, rollbackFault) ==
  LET reject(message) ==
        LET thrown == RollbackThenThrow(message, rollbackFault)
        IN /\ resp' = Resp("delete-category", data, DeleteCategoryStatus(thrown),
                           thrown, FALSE, {})
           /\ UNCHANGED catalogTables
      failed == RollbackThenThrow("Statement failed", rollbackFault)
  IN IF id \notin 1..Len(categories) THEN reject("Category not found")
     ELSE IF categories[id].is_deleted = 1 THEN reject("Category is already deleted")
     ELSE IF fault
       THEN /\ resp' = Resp("delete-category", data, DeleteCategoryStatus(failed),
                            failed, TRUE, {})
            /\ UNCHANGED catalogTables
     ELSE /\ categories' = [categories EXCEPT ![id].is_active = 0,
                                              ![id].is_deleted = 1]
          /\ items' = [i \in 1..Len(items) |->
                         IF i \in ItemsToDelete(id)
                           THEN [items[i] EXCEPT !.is_active = 0, !.is_deleted = 1]
                           ELSE items[i]]
          /\ items_audit' = items_audit \o ItemDeleteAudits(ItemsToDelete(id), userId)
          /\ item_categories' = {pair \in item_categories : pair[1] # id}
          /\ categories_audit' = Append(categories_audit,
               AuditRow("category_id", id, userId, "DELETE",
                        [name |-> categories[id].name,
                         is_active |-> categories[id].is_active = 1,
                         is_deleted |-> categories[id].is_deleted = 0],
                        [is_active |-> FALSE, is_deleted |-> TRUE]))
          /\ resp' = Resp("delete-category", data, 200, "", FALSE,
                          [id |-> id, name |-> categories[id].name,
                           is_active |-> categories[id].is_active,
                           is_deleted |-> categories[id].is_deleted])

DeleteCategoryHandler ==
  /\ \E id \in 0..MaxCategories, userId \in AdminIds \cup {0},
        fault \in BOOLEAN, rollbackFault \in BOOLEAN :
       LET data == [id |-> id, user_id |-> userId]
           required == "All fields are required: id and user_id"
       IN IF id = 0 \/ userId = 0
            THEN /\ resp' = Resp("delete-category", data,
                                 DeleteCategoryStatus(required), required, FALSE, {})
                 /\ UNCHANGED catalogTables
            ELSE softDeleteCategory(data, id, userId, fault, rollbackFault)
  /\ UNCHANGED <<shopTables, req, reader, recon, adder, clients, transactions>>

(* update-category.js (PATCH) -------------------------------------------- *)

MaxUpdates == 1      \* UPDATE rows of categories_audit and items_audit together

UpdatesWritten ==
  Cardinality({n \in 1..Len(categories_audit) :
                 categories_audit[n].action_type = "UPDATE"})
  + Cardinality({n \in 1..Len(items_audit) :
                   items_audit[n].action_type = "UPDATE"})

(* A form field may be absent: "" for the name, "null" for is_active *)
ActiveInputs == {"null", "true", "false"}
EditNames == {"", "c&ps "}

(* The price field of the form: << >> when absent *)
PriceEdits == {<< >>, <<50>>}

UpdateCategoryStatus(message) ==
  IF message = "Method not allowed" THEN 405
  ELSE IF message \in {"Fields 'id' and 'user_id' are required",
                       "Cannot update a deleted category",
                       "Invalid ID or user ID"} THEN 400
  ELSE IF message = "Category not found" THEN 404
  ELSE IF message = "Invalid API key" THEN 403
  ELSE 500

(* updateCategory: one transaction; the image is never submitted *)
updateCategory(data, id, name, userId, isActive, fault) ==
  LET reject(message) ==
        /\ resp' = Resp("update-category", data, UpdateCategoryStatus(message),
                        message, FALSE, {})
        /\ UNCHANGED <<categories, categories_audit, transactions>>
  IN IF id \notin 1..Len(categories) THEN reject("Category not found")
     ELSE IF categories[id].is_deleted = 1
       THEN reject("Cannot update a deleted category")
     ELSE LET oldCategory == categories[id]
              updatedName == IF name = "" THEN oldCategory.name ELSE name
              isActiveInt == IF isActive = "null" THEN oldCategory.is_active
                             ELSE IF isActive = "true" THEN 1 ELSE 0
          IN IF updatedName = oldCategory.name /\ isActiveInt = oldCategory.is_active
               THEN \* return new Response(...) inside the try block: neither
                    \* tx.commit() nor tx.rollback() is reached
                    /\ resp' = Resp("update-category", data, 200, "", FALSE, {})
                    /\ transactions' = transactions \cup {"update-category"}
                    /\ UNCHANGED <<categories, categories_audit>>
             ELSE IF fault
               THEN /\ resp' = Resp("update-category", data, 500,
                                    "Statement failed", TRUE, {})
                    /\ UNCHANGED <<categories, categories_audit, transactions>>
             ELSE /\ categories' = [categories EXCEPT ![id].name = updatedName,
                                                      ![id].is_active = isActiveInt]
                  /\ categories_audit' = Append(categories_audit,
                       AuditRow("category_id", id, userId, "UPDATE",
                                [name |-> oldCategory.name,
                                 is_active |-> oldCategory.is_active = 1],
                                [name |-> updatedName,
                                 is_active |-> isActiveInt = 1]))
                  /\ resp' = Resp("update-category", data, 200, "", FALSE, {id})
                  /\ UNCHANGED transactions

UpdateCategoryHandler ==
  /\ UpdatesWritten < MaxUpdates
  /\ \E id \in 0..MaxCategories, name \in EditNames, isActive \in ActiveInputs,
        userId \in AdminIds, fault \in BOOLEAN :
       LET data == [id |-> id, user_id |-> userId, name |-> name,
                    is_active |-> isActive]
           required == "Fields 'id' and 'user_id' are required"
       IN IF id = 0
            THEN /\ resp' = Resp("update-category", data,
                                 UpdateCategoryStatus(required), required, FALSE, {})
                 /\ UNCHANGED <<categories, categories_audit, transactions>>
            ELSE updateCategory(data, id, escapeTrimName(name), userId, isActive, fault)
  /\ UNCHANGED <<shopTables, items, item_categories, items_audit, req, reader,
                 recon, adder, clients>>

(* part_004: update-category (PUT) --------------------------------------- *)

PutCategoryStatus(message) ==
  IF message = "Method not allowed" THEN 405
  ELSE IF message \in
       {"All fields are required: id, user_id, name, image, and is_active",
        "Invalid request data"} THEN 400
  ELSE IF message = "Category not found" THEN 404
  ELSE IF message \in {"API key is required", "Invalid API key"} THEN 403
  ELSE 500

(* sanitizeData: every character that is not a letter, a digit or a space  *)
(* is removed                                                              *)
stripName(name) == IF name = "c&ps " THEN "cps " ELSE name

(* updateCategory of the PUT handler. The old row is read before the       *)
(* transaction; rows are never removed, and no check is made on it other   *)
(* than its existence.                                                     *)
putCategory(data, id, name, userId, isActive, fault, rollbackFault) ==
  IF id \notin 1..Len(categories)
    THEN /\ resp' = Resp("update-category-put", data,
                         PutCategoryStatus("Category not found"),
                         "Category not found", FALSE, {})
         /\ UNCHANGED <<categories, categories_audit>>
  ELSE IF fault
    THEN /\ resp' = Resp("update-category-put", data, 500,
                         RollbackLoggedThenThrow("Statement failed", rollbackFault),
                         TRUE, {})
         /\ UNCHANGED <<categories, categories_audit>>
  ELSE LET isActiveInt == IF isActive THEN 1 ELSE 0
       IN /\ categories' = [categories EXCEPT ![id].name = name,
                                              ![id].is_active = isActiveInt]
          /\ categories_audit' = Append(categories_audit,
               AuditRow("category_id", id, userId, "UPDATE",
                        [name |-> categories[id].name,
                         is_active |-> categories[id].is_active = 1],
                        [name |-> name, is_active |-> isActiveInt]))
          /\ resp' = Resp("update-category-put", data, 200, "", FALSE, {id})

PutCategoryHandler ==
  /\ UpdatesWritten < MaxUpdates
  /\ \E id \in 0..MaxCategories, name \in EditNames, isActive \in BOOLEAN,
        userId \in AdminIds, fault \in BOOLEAN, rollbackFault \in BOOLEAN :
       LET data == [id |-> id, user_id |-> userId, name |-> name,
                    is_active |-> isActive]
           required == "All fields are required: id, user_id, name, image, and is_active"
       IN IF id = 0 \/ name = ""
            THEN /\ resp' = Resp("update-category-put", data,
                                 PutCategoryStatus(required), required, FALSE, {})
                 /\ UNCHANGED <<categories, categories_audit>>
            ELSE putCategory(data, id, stripName(name), userId, isActive, fault,
                             rollbackFault)
  /\ UNCHANGED <<shopTables, items, item_categories, items_audit, req, reader,
                 recon, adder, clients, transactions>>

(* update-item.js (PATCH) ------------------------------------------------ *)

UpdateItemStatus(message) ==
  IF message = "Method not allowed" THEN 405
  ELSE IF message \in {"Fields 'id' and 'user_id' are required",
                       "Cannot update a deleted item",
                       "Invalid ID or user ID", "Invalid price"} THEN 400
  ELSE IF message = "Item not found" THEN 404
  ELSE IF message = "Invalid API key" THEN 403
  ELSE 500

(* updateItem: one transaction; only the fields submitted are written *)
updateItem(data, id, name, price, userId, isActive, fault) ==
  LET reject(message) ==
        /\ resp' = Resp("update-item", data, UpdateItemStatus(message),
                        message, FALSE, {})
        /\ UNCHANGED <<items, items_audit>>
  IN IF id \notin 1..Len(items) THEN reject("Item not found")
     ELSE IF items[id].is_deleted = 1 THEN reject("Cannot update a deleted item")
     ELSE IF fault
       THEN /\ resp' = Resp("update-item", data, 500, "Statement failed", TRUE, {})
            /\ UNCHANGED <<items, items_audit>>
     ELSE LET oldItem == items[id]
              updatedItem ==
                [oldItem EXCEPT
                   !.name = IF name = "" THEN oldItem.name ELSE name,
                   !.price = IF price = << >> THEN oldItem.price ELSE price[1],
                   !.is_active = IF isActive = "null" THEN oldItem.is_active
                                 ELSE IF isActive = "true" THEN 1 ELSE 0]
          IN /\ items' = [items EXCEPT ![id] = updatedItem]
             /\ items_audit' = Append(items_audit,
                  AuditRow("item_id", id, userId, "UPDATE", oldItem, updatedItem))
             /\ resp' = Resp("update-item", data, 200, "", FALSE, {id})

UpdateItemHandler ==
  /\ UpdatesWritten < MaxUpdates
  /\ \E id \in 0..MaxItems, name \in EditNames, price \in PriceEdits,
        isActive \in ActiveInputs, userId \in AdminIds, fault \in BOOLEAN :
       LET data == [id |-> id, user_id |-> userId, name |-> name,
                    price |-> price, is_active |-> isActive]
           required == "Fields 'id' and 'user_id' are required"
       IN IF id = 0
            THEN /\ resp' = Resp("update-item", data, UpdateItemStatus(required),
                                 required, FALSE, {})
                 /\ UNCHANGED <<items, items_audit>>
          ELSE IF name = "" /\ price = << >> /\ isActive = "null"
            THEN \* hasUpdateableFields: answered before the database is read
                 /\ resp' = Resp("update-item", data, 200, "", FALSE, {})
                 /\ UNCHANGED <<items, items_audit>>
          ELSE IF price # << >> /\ price[1] < 0
            THEN \* sanitizeData
                 /\ resp' = Resp("update-item", data,
                                 UpdateItemStatus("Invalid price"),
                                 "Invalid price", FALSE, {})
                 /\ UNCHANGED <<items, items_audit>>
          ELSE updateItem(data, id, escapeTrimName(name), price, userId,
                          isActive, fault)
  /\ UNCHANGED <<shopTables, categories, categories_audit, item_categories, req,
                 reader, recon, adder, clients, transactions>>

(* part_000: delete-item -------------------------------------------------- *)

DeleteItemStatus(message) ==
  IF message = "Method not allowed" THEN 405
  ELSE IF message \in {"All fields are required: id and user_id",
                       "Item is already deleted", "Invalid ID or user ID"} THEN 400
  ELSE IF message = "Item not found" THEN 404
  ELSE IF message \in {"API key is required", "Invalid API key"} THEN 403
  ELSE 500

(* A delete that keeps one audit row, written over the last one *)
softDeleteItem_OverwritesAudit(data, id, userId, fault) ==
  IF id \notin 1..Len(items) \/ fault
    THEN /\ resp' = Resp("delete-item", data, 500, "Statement failed", fault, {})
         /\ UNCHANGED <<items, items_audit>>
  ELSE /\ items' = [items EXCEPT ![id].is_active = 0, ![id].is_deleted = 1]
       /\ items_audit' = [items_audit EXCEPT ![Len(items_audit)] =
            AuditRow("item_id", id, userId, "DELETE", "null",
                     [is_active |-> FALSE, is_deleted |-> TRUE])]
       /\ resp' = Resp("delete-item", data, 200, "", FALSE, {id})

(* A delete that does not look at is_deleted *)
softDeleteItem_DeletesAgain(data, id, userId, fault) ==
  IF id \notin 1..Len(items) \/ fault
    THEN /\ resp' = Resp("delete-item", data, 500, "Statement failed", fault, {})
         /\ UNCHANGED <<items, items_audit>>
  ELSE /\ items' = [items EXCEPT ![id].is_active = 0, ![id].is_deleted = 1]
       /\ items_audit' = Append(items_audit,
            AuditRow("item_id", id, userId, "DELETE",
                     [name |-> items[id].name, price |-> items[id].price,
                      is_active |-> items[id].is_active = 1,
                      is_deleted |-> items[id].is_deleted = 1],
                     [is_active |-> FALSE, is_deleted |-> TRUE]))
       /\ resp' = Resp("delete-item", data, 200, "", FALSE, {id})

(* softDeleteItem: one transaction *)
softDeleteItem(data, id, userId, fault) ==
  LET reject(message) ==
        /\ resp' = Resp("delete-item", data, DeleteItemStatus(message),
                        message, FALSE, {})
        /\ UNCHANGED <<items, items_audit>>
  IN IF id \notin 1..Len(items) THEN reject("Item not found")
     ELSE IF items[id].is_deleted = 1 THEN reject("Item is already deleted")
     ELSE IF fault
       THEN /\ resp' = Resp("delete-item", data, 500, "Statement failed", TRUE, {})
            /\ UNCHANGED <<items, items_audit>>
     ELSE /\ items' = [items EXCEPT ![id].is_active = 0, ![id].is_deleted = 1]
          /\ items_audit' = Append(items_audit,
               AuditRow("item_id", id, userId, "DELETE",
                        [name |-> items[id].name, price |-> items[id].price,
                         is_active |-> items[id].is_active = 1,
                         is_deleted |-> items[id].is_deleted = 1],
                        [is_active |-> FALSE, is_deleted |-> TRUE]))
          /\ resp' = Resp("delete-item", data, 200, "", FALSE, {id})

DeleteItemHandler ==
  /\ \E id \in 0..MaxItems, userId \in AdminIds, fault \in BOOLEAN :
       LET data == [id |-> id, user_id |-> userId]
           required == "All fields are required: id and user_id"
       IN IF id = 0
            THEN /\ resp' = Resp("delete-item", data, DeleteItemStatus(required),
                                 required, FALSE, {})
                 /\ UNCHANGED <<items, items_audit>>
            ELSE softDeleteItem(data, id, userId, fault)
  /\ UNCHANGED <<shopTables, categories, categories_audit, item_categories, req,
                 reader, recon, adder, clients, transactions>>

(* get-categories.js ---------------------------------------------------- *)

GetCategoriesStatus(message) ==
  IF message = "Method not allowed" THEN 405
  ELSE IF message = "Category not found" THEN 404
  ELSE IF message \in {"API key is required", "Invalid API key"} THEN 403
  ELSE 500

(* SELECT ... FROM categories [WHERE id = ?]; id 0 is the absent param *)
GetCategoriesHandler ==
  /\ \E id \in 0..MaxCategories :
       LET data == [id |-> id]
       IN IF id = 0
            THEN resp' = Resp("get-categories", data, 200, "", FALSE,
                              1..Len(categories))
          ELSE IF id \notin 1..Len(categories)
            THEN resp' = Resp("get-categories", data,
                              GetCategoriesStatus("Category not found"),
                              "Category not found", FALSE, {})
          ELSE resp' = Resp("get-categories", data, 200, "", FALSE, {id})
  /\ UNCHANGED <<shopTables, catalogTables, req, reader, recon, adder, clients, transactions>>

(* get-items.js, first page of the default size -------------------------- *)

GetItemsStatus(message) ==
  IF message = "Method not allowed" THEN 405
  ELSE IF message \in {"Item not found", "Category not found", "No items found"}
    THEN 404
  ELSE IF message \in {"API key is required", "Invalid API key"} THEN 403
  ELSE 500

(* categories JOIN item_categories WHERE item_id = ? AND is_deleted = 0 *)
ItemWithCategories(i) ==
  [id |-> i,
   categories |-> {c \in 1..Len(categories) :
                     <<c, i>> \in item_categories /\ categories[c].is_deleted = 0}]

(* getItems(turso, itemId, categoryId): the rows returned, or the message *)
getItems(itemId, categoryId) ==
  IF itemId # 0
    THEN IF itemId \in 1..Len(items) /\ items[itemId].is_deleted = 0
           THEN [error |-> "", rows |-> {ItemWithCategories(itemId)}]
           ELSE [error |-> "Item not found", rows |-> {}]
  ELSE IF categoryId # 0
    THEN [error |-> "",
          rows |-> {ItemWithCategories(i) :
                      i \in {j \in 1..Len(items) :
                               /\ <<categoryId, j>> \in item_categories
                               /\ items[j].is_deleted = 0}}]
  ELSE [error |-> "",
        rows |-> {ItemWithCategories(i) :
                    i \in {j \in 1..Len(items) : items[j].is_deleted = 0}}]

GetItemsHandler ==
  /\ \E itemId \in 0..Len(items), categoryId \in 0..MaxCategories :
       LET data == [id |-> itemId, category_id |-> categoryId]
           result == getItems(itemId, categoryId)
       IN resp' = IF result.error # ""
                    THEN Resp("get-items", data, GetItemsStatus(result.error),
                              result.error, FALSE, {})
                    ELSE Resp("get-items", data, 200, "", FALSE, result.rows)
  /\ UNCHANGED <<shopTables, catalogTables, req, reader, recon, adder, clients, transactions>>

(* get-user-inventory ----------------------------------------------------- *)

(* registerUser: statements on the client, each durable when it returns.  *)
(* fault names the statement that fails.                                  *)
registerUser(data, userId, fault) ==
  LET generatedId == Len(users) + 1
      failed == Resp("get-user-inventory", data, 500, "Statement failed", TRUE, {})
  IN IF fault = "insert"
       THEN /\ resp' = failed
            /\ UNCHANGED <<users, users_audit>>
     ELSE IF fault \in {"select", "audit"}
       THEN /\ users' = Append(users, [user_id |-> userId, credits |-> DefaultCredits])
            /\ resp' = failed
            /\ UNCHANGED users_audit
     ELSE /\ users' = Append(users, [user_id |-> userId, credits |-> DefaultCredits])
          /\ users_audit' = Append(users_audit,
               [user_id |-> generatedId, action_type |-> "INSERT",
                old_values |-> "null",
                new_values |-> [user_id |-> userId, credits |-> DefaultCredits]])
          /\ resp' = Resp("get-user-inventory", data, 200, "", FALSE,
                          [user_id |-> userId, credits |-> DefaultCredits, inventory |-> {}])

(* getUserData: the user, registered when absent, and the items joined to *)
(* the inventory rows that carry the user's row id                        *)
getUserData(data, userId, fault) ==
  IF UserRows(userId) = {}
    THEN registerUser(data, userId, fault)
  ELSE /\ resp' = IF fault # "none"
                    THEN Resp("get-user-inventory", data, 500, "Statement failed",
                              TRUE, {})
                    ELSE LET id == FirstUserRow(userId)
                         IN Resp("get-user-inventory", data, 200, "", FALSE,
                                 [user_id |-> userId, credits |-> users[id].credits,
                                  inventory |->
                                    {row.item_id : row \in
                                       {x \in BagToSet(inventory) :
                                          /\ x.user_id = id
                                          /\ x.item_id \in 1..Len(items)}}])
       /\ UNCHANGED <<users, users_audit>>

GetUserInventoryHandler ==
  /\ \E userId \in UserIds, fault \in {"none", "insert", "select", "audit"} :
       getUserData([user_id |-> userId], userId, fault)
  /\ UNCHANGED <<inventory, purchase_transactions, purchase_items,
                 purchases_audit, catalogTables, req, reader, recon, adder, clients, transactions>>

----------------------------------------------------------------------------
(* Schema.  The tables are created outside this repository; the           *)
(* specification fixes one constraint the handlers rely on.               *)

(* users.user_id is UNIQUE: an INSERT of a user_id that is present fails *)
UserIdUnique == TRUE

(* A table that accepts every INSERT *)
InsertUserFails_Never(userId) == FALSE

InsertUserFails(userId) == UserIdUnique /\ UserRows(userId) # {}

----------------------------------------------------------------------------
(* Read views *)

(* categories c JOIN item_categories ic WHERE ic.item_id = ? AND           *)
(* c.is_deleted = 0: the category ids listed with an item                  *)
LiveCategoriesOf(itemId) ==
  {c \in 1..Len(categories) :
     <<c, itemId>> \in item_categories /\ categories[c].is_deleted = 0}

(* getInventory's items JOIN inventory WHERE inv.user_id = ? AND           *)
(* i.is_deleted = 0, with each item's categories                           *)
InventoryView(id) ==
  {[id |-> row.item_id, total_quantity |-> row.total_quantity,
    quantity_in_bag |-> row.quantity_in_bag,
    categories |-> LiveCategoriesOf(row.item_id)] :
     row \in {x \in BagToSet(inventory) :
                /\ x.user_id = id
                /\ x.item_id \in 1..Len(items)
                /\ items[x.item_id].is_deleted = 0}}

----------------------------------------------------------------------------
(* get-inventories handler, single user: getInventory and registerNewUser *)

ReaderIdle == [pc |-> "idle", user_id |-> 0]

GetInventoriesStatus(message) ==
  IF message = "Method not allowed" THEN 405
  ELSE IF message \in {"Invalid user ID", "Invalid user ID format"} THEN 400
  ELSE IF message \in {"API key is required", "Invalid API key"} THEN 403
  ELSE 500

(* getInventory up to the branch on userResult.rows.length *)
GetInventory(k) ==
  /\ reader[k].pc = "idle"
  /\ \E userId \in UserIds :
       IF UserRows(userId) = {}
         THEN /\ reader' = [reader EXCEPT ![k] =
                             [pc |-> "registerNewUser", user_id |-> userId]]
              /\ resp' = Resp("get-inventories", userId, 0, "", FALSE, {})
         ELSE LET id == FirstUserRow(userId)
              IN /\ resp' = Resp("get-inventories", userId, 200, "", FALSE,
                      [id |-> id, user_id |-> users[id].user_id,
                       credits |-> users[id].credits,
                       inventory |-> InventoryView(id),
                       bag |-> {x \in InventoryView(id) : x.quantity_in_bag > 0}])
                 /\ UNCHANGED reader
  /\ UNCHANGED <<shopTables, catalogTables, req, recon, adder, clients, transactions>>

(* registerNewUser of get-inventories.js: one transaction *)
registerNewUser(userId, fault) ==
  IF fault \/ InsertUserFails(userId)
    THEN /\ resp' = Resp("get-inventories", userId,
                         GetInventoriesStatus("Statement failed"),
                         "Statement failed", fault, {})
         /\ UNCHANGED <<users, users_audit>>
    ELSE /\ users' = Append(users, [user_id |-> userId, credits |-> DefaultCredits])
         /\ users_audit' = Append(users_audit,
              [user_id |-> userId, action_type |-> "INSERT",
               old_values |-> "null",
               new_values |-> [user_id |-> userId, credits |-> DefaultCredits]])
         /\ resp' = Resp("get-inventories", userId, 200, "", FALSE,
                         [id |-> Len(users) + 1, user_id |-> userId,
                          credits |-> DefaultCredits,
                          inventory |-> {}, bag |-> {}])

GetInventoryRegister(k) ==
  /\ reader[k].pc = "registerNewUser"
  /\ \E fault \in BOOLEAN : registerNewUser(reader[k].user_id, fault)
  /\ reader' = [reader EXCEPT ![k] = ReaderIdle]
  /\ UNCHANGED <<inventory, purchase_transactions, purchase_items,
                 purchases_audit, catalogTables, req, recon, adder, clients, transactions>>

----------------------------------------------------------------------------
(* get-inventories handler, user_ids: registerNewUsers and getInventory   *)

(* The user_ids lists a batch request may carry *)
BatchInputs == {<<1>>, <<2, 1>>, <<1, 1>>}

UserRowsIn(us, userId) == {i \in 1..Len(us) : us[i].user_id = userId}

(* registerNewUsers: INSERT ... WHERE NOT EXISTS for each id in turn; the *)
(* users table it leaves                                                  *)
RECURSIVE registerNewUsers_Unconditional(_, _)
registerNewUsers_Unconditional(us, userIds) ==
  IF userIds = << >> THEN us
  ELSE registerNewUsers_Unconditional(
         Append(us, [user_id |-> Head(userIds), credits |-> DefaultCredits]),
         Tail(userIds))

RECURSIVE registerNewUsers(_, _)
registerNewUsers(us, userIds) ==
  IF userIds = << >> THEN us
  ELSE registerNewUsers(
         IF UserRowsIn(us, Head(userIds)) = {}
           THEN Append(us, [user_id |-> Head(userIds), credits |-> DefaultCredits])
           ELSE us,
         Tail(userIds))

(* The audit rows of registerNewUsers, one per inserted user; byRowId     *)
(* tells whether the row carries the row id or the user_id                *)
NewUsersAudit(us, byRowId) ==
  [n \in 1..(Len(us) - Len(users)) |->
     [user_id |-> IF byRowId THEN Len(users) + n ELSE us[Len(users) + n].user_id,
      action_type |-> "INSERT", old_values |-> "null",
      new_values |-> [user_id |-> us[Len(users) + n].user_id,
                      credits |-> DefaultCredits]]]

(* getInventory of a registered user, read from the tables us *)
InventoryOf(us, userId) ==
  LET id == CHOOSE i \in UserRowsIn(us, userId) :
              \A j \in UserRowsIn(us, userId) : i <= j
  IN [id |-> id, user_id |-> userId, credits |-> us[id].credits,
      inventory |-> InventoryView(id),
      bag |-> {x \in InventoryView(id) : x.quantity_in_bag > 0}]

(* getInventories: registerNewUsers in one transaction, then the reads *)
GetInventories ==
  /\ \E userIds \in BatchInputs, fault \in BOOLEAN :
       IF fault
         THEN /\ resp' = Resp("get-inventories-batch", userIds,
                              GetInventoriesStatus("Statement failed"),
                              "Statement failed", TRUE, {})
              /\ UNCHANGED <<users, users_audit>>
         ELSE LET us == registerNewUsers(users, userIds)
              IN /\ users' = us
                 /\ users_audit' = users_audit \o NewUsersAudit(us, FALSE)
                 /\ resp' = Resp("get-inventories-batch", userIds, 200, "", FALSE,
                                 {InventoryOf(us, u) : u \in SeqToSet(userIds)})
  /\ UNCHANGED <<inventory, purchase_transactions, purchase_items,
                 purchases_audit, catalogTables, req, reader, recon, adder, clients, transactions>>

----------------------------------------------------------------------------
(* get-bags handler *)

(* getBag's items JOIN inventory WHERE inv.user_id = ? AND                 *)
(* inv.quantity_in_bag > 0 AND i.is_deleted = 0                            *)
BagView(id) ==
  {[id |-> row.item_id, quantity |-> row.quantity_in_bag,
    categories |-> LiveCategoriesOf(row.item_id)] :
     row \in {x \in BagToSet(inventory) :
                /\ x.user_id = id
                /\ x.quantity_in_bag > 0
                /\ x.item_id \in 1..Len(items)
                /\ items[x.item_id].is_deleted = 0}}

(* getBag up to the branch on userResult.rows.length *)
GetBag(k) ==
  /\ reader[k].pc = "idle"
  /\ \E userId \in UserIds :
       IF UserRows(userId) = {}
         THEN /\ reader' = [reader EXCEPT ![k] =
                             [pc |-> "registerNewUserOfBags", user_id |-> userId]]
              /\ resp' = Resp("get-bags", userId, 0, "", FALSE, {})
         ELSE LET id == FirstUserRow(userId)
              IN /\ resp' = Resp("get-bags", userId, 200, "", FALSE,
                      [id |-> id, user_id |-> users[id].user_id,
                       credits |-> users[id].credits, bag |-> BagView(id)])
                 /\ UNCHANGED reader
  /\ UNCHANGED <<shopTables, catalogTables, req, recon, adder, clients, transactions>>

(* registerNewUser of get-bags.js: one transaction; the audit row carries *)
(* lastInsertRowid                                                        *)
registerNewUserOfBags(userId, fault) ==
  IF fault \/ InsertUserFails(userId)
    THEN /\ resp' = Resp("get-bags", userId,
                         GetInventoriesStatus("Statement failed"),
                         "Statement failed", fault, {})
         /\ UNCHANGED <<users, users_audit>>
    ELSE /\ users' = Append(users, [user_id |-> userId, credits |-> DefaultCredits])
         /\ users_audit' = Append(users_audit,
              [user_id |-> Len(users) + 1, action_type |-> "INSERT",
               old_values |-> "null",
               new_values |-> [user_id |-> userId, credits |-> DefaultCredits]])
         /\ resp' = Resp("get-bags", userId, 200, "", FALSE,
                         [id |-> Len(users) + 1, user_id |-> userId,
                          credits |-> DefaultCredits,
                          inventory |-> {}, bag |-> {}])

GetBagRegister(k) ==
  /\ reader[k].pc = "registerNewUserOfBags"
  /\ \E fault \in BOOLEAN : registerNewUserOfBags(reader[k].user_id, fault)
  /\ reader' = [reader EXCEPT ![k] = ReaderIdle]
  /\ UNCHANGED <<inventory, purchase_transactions, purchase_items,
                 purchases_audit, catalogTables, req, recon, adder, clients, transactions>>

(* getBags: registerNewUsers in one transaction, then the bags of the     *)
(* users by their row ids                                                 *)
GetBags ==
  /\ \E userIds \in BatchInputs, fault \in BOOLEAN :
       IF fault
         THEN /\ resp' = Resp("get-bags-batch", userIds,
                              GetInventoriesStatus("Statement failed"),
                              "Statement failed", TRUE, {})
              /\ UNCHANGED <<users, users_audit>>
         ELSE LET us == registerNewUsers(users, userIds)
              IN /\ users' = us
                 /\ users_audit' = users_audit \o NewUsersAudit(us, TRUE)
                 /\ resp' = Resp("get-bags-batch", userIds, 200, "", FALSE,
                      {[id |-> i, user_id |-> us[i].user_id,
                        credits |-> us[i].credits, bag |-> BagView(i)] :
                         i \in {j \in 1..Len(us) :
                                  us[j].user_id \in SeqToSet(userIds)}})
  /\ UNCHANGED <<inventory, purchase_transactions, purchase_items,
                 purchases_audit, catalogTables, req, reader, recon, adder, clients, transactions>>

----------------------------------------------------------------------------
(* Shop: users, credits, purchases and inventories over a fixed catalog *)

ShopCategories == <<[name |-> "a", is_active |-> 1, is_deleted |-> 0]>>
ShopItems ==
  << [name |-> "a", price |-> 75, is_active |-> 1, is_deleted |-> 0],
     [name |-> "b", price |-> 25, is_active |-> 1, is_deleted |-> 0],
     [name |-> "a", price |-> 25, is_active |-> 0, is_deleted |-> 1] >>

(* User 2 has registered; user 1 has not been seen yet *)
ShopUsers == <<[user_id |-> 2, credits |-> DefaultCredits]>>
ShopUsersAudit ==
  <<[user_id |-> 2, action_type |-> "INSERT", old_values |-> "null",
     new_values |-> [user_id |-> 2, credits |-> DefaultCredits]]>>

Init ==
  /\ users = ShopUsers
  /\ users_audit = ShopUsersAudit
  /\ inventory = EmptyBag
  /\ purchase_transactions = << >>
  /\ purchase_items = << >>
  /\ purchases_audit = << >>
  /\ categories = ShopCategories
  /\ categories_audit = << >>
  /\ items = ShopItems
  /\ item_categories = {<<1, 1>>, <<1, 2>>}
  /\ items_audit = << >>
  /\ req = [r \in 1..MaxReq |-> Idle]
  /\ reader = [k \in 1..MaxReaders |-> ReaderIdle]
  /\ recon = [pc |-> "idle", data |-> NoPayload]
  /\ adder = AdderIdle
  /\ clients = {}
  /\ transactions = {}
  /\ resp = NoResp

Next ==
  \/ \E r \in 1..MaxReq : PurchaseCheckCredits(r)
  \/ \E r \in 1..MaxReq : PurchaseVerifyItems(r)
  \/ \E r \in 1..MaxReq : PurchaseCommit(r)
  \/ UpdateCredits
  \/ GetInventory(1)
  \/ GetInventoryRegister(1)

Spec == Init /\ [][Next]_vars

----------------------------------------------------------------------------
(* Properties of the shop *)

NewTransaction == Len(purchase_transactions') = Len(purchase_transactions) + 1

(* The purchase_items rows of a transaction *)
ItemsOfTransaction(pis, id) ==
  LET OfId(row) == row.transaction_id = id IN SelectSeq(pis, OfId)

SpentOnItems(pis, id) ==
  LET rows == ItemsOfTransaction(pis, id)
  IN SumSeq([i \in 1..Len(rows) |-> rows[i].item_price * rows[i].quantity])

(* The sum of price * quantity over the lines of a cart *)
RECURSIVE CartSum(_)
CartSum(cart) ==
  IF cart = << >> THEN 0
  ELSE Head(cart).price * Head(cart).quantity + CartSum(Tail(cart))

(* C1: whatever purchase, update-credits and registration requests have   *)
(* run and however they interleaved, no user has negative credits.        *)
C1_CreditsNonNegative ==
  \A i \in 1..Len(users) : users[i].credits >= 0

(* A state after a registration, a credits update and two purchases, one  *)
(* of which left its buyer with less than the other started from          *)
C1_Witness ==
  /\ Len(users) = 2
  /\ \E a \in 1..Len(users_audit) : users_audit[a].action_type = "UPDATE"
  /\ Len(purchase_transactions) = 2
  /\ \E i \in 1..Len(users) : users[i].credits = 0

(* C2: the row a committed purchase writes has total_credits_spent equal  *)
(* to the sum of price * quantity over its lines, credits_after equal to  *)
(* credits_before - total_credits_spent and not negative, and in the      *)
(* state the commit leaves the buyer's credits are credits_after.         *)
C2_PurchaseConservation ==
  [][NewTransaction =>
       LET id == Len(purchase_transactions')
           row == purchase_transactions'[id]
       IN /\ row.total_credits_spent = SpentOnItems(purchase_items', id)
          /\ row.total_credits_spent = CartSum(resp'.input.items)
          /\ row.credits_after = row.credits_before - row.total_credits_spent
          /\ row.credits_after >= 0
          /\ UserRows(row.user_id) # {}
          /\ \A i \in UserRows(row.user_id) :
                users'[i].credits = row.credits_after]_vars

(* A committed purchase of a cart with two lines *)
C2_Witness ==
  \E id \in 1..Len(purchase_transactions) :
    /\ Len(ItemsOfTransaction(purchase_items, id)) = 2
    /\ purchase_transactions[id].total_credits_spent = 75
    /\ purchase_transactions[id].credits_after = 25

(* The step in which invocation r runs its credit pre-check *)
CreditCheckStep(r) == req[r].pc = "idle" /\ req'[r].pc # "idle"

(* C3: a well-formed purchase of a registered user whose cart total       *)
(* exceeds the user's credits is answered 400 "Insufficient credits" and  *)
(* changes no table.                                                      *)
C3_InsufficientCreditsRejected ==
  [][\A r \in 1..MaxReq :
       LET data == resp'.input IN
       ( /\ CreditCheckStep(r)
         /\ validatePurchaseData(data) = ""
         /\ UserRows(data.user_id) # {}
         /\ CartSum(data.items) > users[FirstUserRow(data.user_id)].credits )
       => /\ resp'.status = 400
          /\ resp'.error = "Insufficient credits"
          /\ req'[r].pc = "done"
          /\ UNCHANGED <<shopTables, catalogTables>>]_vars

(* The scenario: credits 50, cart total 75, answered 400 *)
C3_Witness ==
  /\ resp.op = "purchase"
  /\ resp.status = 400
  /\ resp.error = "Insufficient credits"
  /\ CartSum(resp.input.items) = 75
  /\ users[FirstUserRow(resp.input.user_id)].credits = 50

(* The step in which invocation r runs its transaction to the commit *)
CommitStep(r) ==
  req[r].pc = "itemsVerified" /\ req'[r].pc = "done" /\ ~resp'.fault

(* C4: the debiting transaction does not look at the balance again: it    *)
(* commits for every verified request, and debits from the balance its    *)
(* own pre-check read, whatever the balance has become since.             *)
C4_DebitFromPrecheckBalance ==
  [][\A r \in 1..MaxReq :
       CommitStep(r) =>
         /\ NewTransaction
         /\ LET row == purchase_transactions'[Len(purchase_transactions')]
            IN /\ row.credits_before = req[r].userCredits
               /\ row.credits_after = req[r].userCredits - CartSum(req[r].items)]_vars

(* Two purchases of one user have both committed from the same balance,   *)
(* with no credits update in between, and together spent more than it     *)
C4_Witness ==
  /\ \A a \in 1..Len(users_audit) : users_audit[a].action_type # "UPDATE"
  /\ \E a, b \in 1..Len(purchase_transactions) :
       /\ a < b
       /\ purchase_transactions[a].user_id = purchase_transactions[b].user_id
       /\ purchase_transactions[a].credits_before = DefaultCredits
       /\ purchase_transactions[b].credits_before = DefaultCredits
       /\ purchase_transactions[a].total_credits_spent
            + purchase_transactions[b].total_credits_spent > DefaultCredits

----------------------------------------------------------------------------
(* Inventories: purchases and reconciliations of two registered users *)

InventoryUsers ==
  <<[user_id |-> 2, credits |-> DefaultCredits],
    [user_id |-> 1, credits |-> DefaultCredits]>>

InitInventory ==
  /\ users = InventoryUsers
  /\ users_audit = << >>
  /\ inventory = EmptyBag
  /\ purchase_transactions = << >>
  /\ purchase_items = << >>
  /\ purchases_audit = << >>
  /\ categories = ShopCategories
  /\ categories_audit = << >>
  /\ items = ShopItems
  /\ item_categories = {<<1, 1>>, <<1, 2>>}
  /\ items_audit = << >>
  /\ req = [r \in 1..MaxReq |-> Idle]
  /\ reader = [k \in 1..MaxReaders |-> ReaderIdle]
  /\ recon = [pc |-> "idle", data |-> NoPayload]
  /\ adder = AdderIdle
  /\ clients = {}
  /\ transactions = {}
  /\ resp = NoResp

(* Carts of the inventory specification: 75 and an unavailable item *)
InventoryCarts == {<<Line(1, 1, 75)>>, <<Line(3, 1, 25)>>}

NextInventory ==
  \/ \E userId \in UserIds, cartItems \in InventoryCarts :
       Purchase(userId, cartItems)
  \/ \E data \in Payloads({2}) : UpdateInventoryReceive(data)
  \/ UpdateInventory

SpecInventory == InitInventory /\ [][NextInventory]_vars

(* The reconciliation specification: the statements of a reconciliation    *)
(* one by one, beside purchases                                            *)
NextReconciliation ==
  \/ \E userId \in UserIds, cartItems \in InventoryCarts :
       Purchase(userId, cartItems)
  \/ \E data \in Payloads({2}) : UpdateInventoryReceive(data)
  \/ UpdateInventoryDelete
  \/ UpdateInventoryInsert

SpecReconciliation == InitInventory /\ [][NextReconciliation]_vars

----------------------------------------------------------------------------
(* Properties of the inventory specification *)

(* The reconciliation handler answers the request it holds *)
ReconciliationStep == recon.pc = "received" /\ recon'.pc = "idle"

(* The number of copies of a row in an inventory *)
Copies(inv, row) == IF row \in BagToSet(inv) THEN inv[row] ELSE 0

(* The integer part of a number given in halves *)
IntegerPart(half) ==
  CHOOSE n \in -8..8 :
    \/ half >= 0 /\ 2 * n <= half /\ half < 2 * n + 2
    \/ half < 0 /\ 2 * n >= half /\ half > 2 * n - 2

(* The first entry of the bag array for an item, << >> when there is none *)
FirstBagEntry(bag, itemId) ==
  LET found == {j \in 1..Len(bag) : bag[j].item_id = itemId}
  IN IF found = {} THEN << >>
     ELSE <<bag[CHOOSE j \in found : \A k \in found : j <= k]>>

(* C8: in every reachable state, after any sequence of purchases and      *)
(* reconciliations, every inventory row has                                *)
(* 0 <= quantity_in_bag <= total_quantity.                                 *)
C8_BagWithinTotal ==
  \A row \in BagToSet(inventory) :
    0 <= row.quantity_in_bag /\ row.quantity_in_bag <= row.total_quantity

(* A row written by a reconciliation with one piece in the bag, and then  *)
(* raised by a purchase of the same user                                   *)
C8_Witness ==
  /\ \E row \in BagToSet(inventory) :
       /\ row.quantity_in_bag = 1
       /\ row.total_quantity = 3
       /\ \E i \in 1..Len(purchase_transactions) :
            purchase_transactions[i].user_id = row.user_id
  /\ resp.op = "purchase" /\ resp.status = 200

(* An entry of the payload that the reconciliation must refuse: its       *)
(* quantity is not a number or is negative, or the bag quantity of its    *)
(* item is negative or greater than its quantity                           *)
Offending(data, i) ==
  LET item == data.inventory[i]
      inBag == FirstBagEntry(data.bag, item.item_id)
  IN \/ ~item.isNumber
     \/ item.half < 0
     \/ /\ inBag # << >>
        /\ \/ ~inBag[1].isNumber
           \/ inBag[1].half < 0
           \/ inBag[1].half > item.half

(* C9: a reconciliation whose payload has an inventory entry with a       *)
(* negative or non-numeric quantity, or with a bag quantity that is       *)
(* negative or greater than its total, leaves the inventory rows of the   *)
(* user exactly as they were, wherever the offending entry stands.        *)
C9_OffendingPayloadRejected ==
  [][(ReconciliationStep
        /\ \E i \in 1..Len(recon.data.inventory) : Offending(recon.data, i))
      => /\ inventory' = inventory
         /\ resp'.status # 200]_vars

(* C10: after an accepted reconciliation for user u the rows of u are     *)
(* exactly one row per entry of the inventory array, total_quantity the   *)
(* integer part of the entry's quantity and quantity_in_bag the integer   *)
(* part of the quantity of the first bag entry with the same item_id (0   *)
(* when there is none); the rows of every other user are unchanged.       *)
C10_FullReplace ==
  [][(ReconciliationStep /\ resp'.status = 200)
      => LET data == recon.data
             expected(i) ==
               LET inBag == FirstBagEntry(data.bag, data.inventory[i].item_id)
               IN InvRow(data.user_id, data.inventory[i].item_id,
                         IntegerPart(data.inventory[i].half),
                         IF inBag = << >> THEN 0 ELSE IntegerPart(inBag[1].half))
             rows == BagToSet(inventory) \cup BagToSet(inventory')
                       \cup {expected(i) : i \in 1..Len(data.inventory)}
         IN \A row \in rows :
              IF row.user_id = data.user_id
                THEN Copies(inventory', row) =
                       Cardinality({i \in 1..Len(data.inventory) : expected(i) = row})
                ELSE Copies(inventory', row) = Copies(inventory, row)]_vars

(* An accepted reconciliation with a piece in the bag has replaced the    *)
(* rows of user 2 while user 1 holds a row of a purchase                   *)
C10_Witness ==
  /\ resp.op = "update-inventory" /\ resp.status = 200
  /\ \E row \in BagToSet(inventory) :
       row.user_id = 2 /\ row.total_quantity = 2 /\ row.quantity_in_bag = 1
  /\ \E row \in BagToSet(inventory) : row.user_id = 1

(* C10 as stated: total_quantity is the entry's quantity and              *)
(* quantity_in_bag the quantity of the bag entry with the same item_id.    *)
C10_QuantitiesAsSubmitted ==
  [][(ReconciliationStep /\ resp'.status = 200)
      => LET data == recon.data
         IN /\ \A row \in BagToSet(inventory') :
                 row.user_id = data.user_id
                   => \E i \in 1..Len(data.inventory) :
                        LET inBag == FirstBagEntry(data.bag, data.inventory[i].item_id)
                        IN /\ row.item_id = data.inventory[i].item_id
                           /\ 2 * row.total_quantity = data.inventory[i].half
                           /\ 2 * row.quantity_in_bag =
                                IF inBag = << >> THEN 0 ELSE inBag[1].half
            /\ \A row \in BagToSet(inventory) \cup BagToSet(inventory') :
                 row.user_id # data.user_id
                   => Copies(inventory', row) = Copies(inventory, row)]_vars

----------------------------------------------------------------------------
(* Catalog specification: a catalog with its audit history, one           *)
(* registered user, and an inventory row left by a reconciliation         *)

CatalogCategoriesAudit ==
  <<AuditRow("category_id", 1, 7, "INSERT", "null",
             [name |-> "a", is_active |-> TRUE])>>

CatalogItemsAudit ==
  <<AuditRow("item_id", 1, 7, "INSERT", "null", [name |-> "a", price |-> 75]),
    AuditRow("item_id", 2, 7, "INSERT", "null", [name |-> "b", price |-> 25]),
    AuditRow("item_id", 3, 7, "INSERT", "null", [name |-> "a", price |-> 25]),
    AuditRow("item_id", 3, 7, "DELETE",
             [is_active |-> TRUE, is_deleted |-> FALSE],
             [is_active |-> FALSE, is_deleted |-> TRUE])>>

InitCatalog ==
  /\ users = ShopUsers
  /\ users_audit = ShopUsersAudit
  /\ inventory = SetToBag({InvRow(1, 2, 1, 0)})
  /\ purchase_transactions = << >>
  /\ purchase_items = << >>
  /\ purchases_audit = << >>
  /\ categories = ShopCategories
  /\ categories_audit = CatalogCategoriesAudit
  /\ items = ShopItems
  /\ item_categories = {<<1, 1>>, <<1, 2>>}
  /\ items_audit = CatalogItemsAudit
  /\ req = [r \in 1..MaxReq |-> Idle]
  /\ reader = [k \in 1..MaxReaders |-> ReaderIdle]
  /\ recon = [pc |-> "idle", data |-> NoPayload]
  /\ adder = AdderIdle
  /\ clients = {}
  /\ transactions = {}
  /\ resp = NoResp

NextCatalog ==
  \/ InsertCategoryHandler
  \/ AddCategoryHandler
  \/ DeleteCategoryHandler
  \/ GetCategoriesHandler
  \/ GetItemsHandler
  \/ GetUserInventoryHandler

SpecCatalog == InitCatalog /\ [][NextCatalog]_vars

----------------------------------------------------------------------------
(* Properties of the catalog specification *)

(* C5: a mutating request that ends with a failed statement leaves the    *)
(* primary tables exactly as they were before the call, in particular     *)
(* when the statement that fails comes after the primary write and        *)
(* before the audit insert has been made.                                 *)
C5_FailureLeavesPrimaryTables ==
  [][resp'.fault
       => /\ categories' = categories
          /\ items' = items
          /\ item_categories' = item_categories
          /\ users' = users]_vars

(* The audit rows of a table for one entity and one action *)
AuditsOf(audit, key, id, action) ==
  {n \in 1..Len(audit) : audit[n][key] = id /\ audit[n].action_type = action}

(* C6: after any sequence of requests every category and every item has   *)
(* exactly one INSERT audit row, one DELETE audit row when it is deleted  *)
(* and none when it is not, every user has one INSERT audit row, and no   *)
(* audit row belongs to an entity that was never committed.               *)
C6_AuditComplete ==
  /\ \A c \in 1..Len(categories) :
       /\ Cardinality(AuditsOf(categories_audit, "category_id", c, "INSERT")) = 1
       /\ Cardinality(AuditsOf(categories_audit, "category_id", c, "DELETE"))
            = categories[c].is_deleted
  /\ \A i \in 1..Len(items) :
       /\ Cardinality(AuditsOf(items_audit, "item_id", i, "INSERT")) = 1
       /\ Cardinality(AuditsOf(items_audit, "item_id", i, "DELETE"))
            = items[i].is_deleted
  /\ Cardinality({n \in 1..Len(users_audit) :
                    users_audit[n].action_type = "INSERT"}) = Len(users)
  /\ \A n \in 1..Len(categories_audit) :
       categories_audit[n].category_id \in 1..Len(categories)
  /\ \A n \in 1..Len(items_audit) :
       items_audit[n].item_id \in 1..Len(items)

(* The category and item rows a read response carries *)
ReturnedCategories(r) ==
  IF r.op = "get-categories" THEN r.body
  ELSE IF r.op = "get-items" THEN UNION {row.categories : row \in r.body}
  ELSE {}

ReturnedItems(r) ==
  IF r.op = "get-items" THEN {row.id : row \in r.body}
  ELSE IF r.op = "get-user-inventory" THEN r.body.inventory
  ELSE {}

(* C7: no read endpoint answers with a category or an item whose          *)
(* is_deleted is 1, as the entity asked for or as a joined row.           *)
C7_NoDeletedRowReturned ==
  [][(resp'.op \in {"get-categories", "get-items", "get-user-inventory"}
        /\ resp'.status = 200)
      => /\ \A c \in ReturnedCategories(resp') : categories[c].is_deleted = 0
         /\ \A i \in ReturnedItems(resp') : items[i].is_deleted = 0]_vars

(* The items specification: items are added while categories are added    *)
(* and deleted                                                             *)
NextItems ==
  \/ AddCategoryHandler
  \/ AddItemValidate
  \/ AddItemCommit
  \/ DeleteCategoryHandler

SpecItems == InitCatalog /\ [][NextItems]_vars

(* The editing specification: updates and deletes of categories and items *)
NextEdit ==
  \/ DeleteCategoryHandler
  \/ UpdateCategoryHandler
  \/ PutCategoryHandler
  \/ UpdateItemHandler
  \/ DeleteItemHandler

SpecEdit == InitCatalog /\ [][NextEdit]_vars

(* The audit specification: every kind of request that writes an audit    *)
(* table, on the database of the catalog specification                     *)
NextAudit ==
  \/ \E userId \in UserIds, cartItems \in InventoryCarts :
       Purchase(userId, cartItems)
  \/ UpdateCredits
  \/ GetUserInventoryHandler
  \/ DeleteCategoryHandler
  \/ DeleteItemHandler

SpecAudit == InitCatalog /\ [][NextAudit]_vars

(* The credits specification: update-credits requests with the amount as  *)
(* the body carries it, beside the read that registers an unknown user    *)
NextCredits ==
  \/ UpdateCreditsRequest
  \/ GetUserInventoryHandler

SpecCredits == InitCatalog /\ [][NextCredits]_vars

(* get-items.js, the list read with its page and limit parameters ------- *)

(* url.searchParams.get("page") and get("limit"): << >> is an absent       *)
(* parameter, <<n>> the text of the integer n                              *)
PageInputs == {<< >>, <<0>>, <<1>>, <<2>>, <<3>>}
LimitInputs == {<< >>, <<0>>, <<1>>, <<2>>, <<24>>, <<25>>}

(* url.searchParams.get(...) || "1" and || "24", then Number / parseInt *)
PageOf(page) == IF page = << >> THEN 1 ELSE page[1]
LimitOf(limit) == IF limit = << >> THEN 24 ELSE limit[1]

validatePagination(page, limit) ==
  IF PageOf(page) < 1 THEN "Invalid page number"
  ELSE IF LimitOf(limit) < 1 \/ LimitOf(limit) > 24 THEN "Invalid limit value"
  ELSE ""

GetItemsPageStatus(message) ==
  IF message \in {"Invalid page number", "Invalid limit value"} THEN 400
  ELSE GetItemsStatus(message)

(* SELECT COUNT ... as total FROM items WHERE is_deleted = 0 *)
LiveItems == {i \in 1..Len(items) : items[i].is_deleted = 0}

(* ORDER BY created_at DESC: the newest row first *)
RECURSIVE Descending(_)
Descending(S) ==
  IF S = {} THEN << >>
  ELSE LET newest == CHOOSE x \in S : \A y \in S : y <= x
       IN <<newest>> \o Descending(S \ {newest})

(* LIMIT ? OFFSET ? over the ordered rows *)
LimitOffset(rows, limit, offset) ==
  IF offset >= Len(rows) THEN << >>
  ELSE SubSeq(rows, offset + 1,
              IF offset + limit < Len(rows) THEN offset + limit ELSE Len(rows))

(* Math.floor in the place of Math.ceil *)
Ceil_RoundsDown(total, limit) == total \div limit

(* Math.ceil(total / limit) *)
Ceil(total, limit) == (total + limit - 1) \div limit

(* getItems(turso, null, null, page, limit): the list branch *)
getItemsPage(page, limit) ==
  LET offset == (page - 1) * limit
      total == Cardinality(LiveItems)
      rows == LimitOffset(Descending(LiveItems), limit, offset)
  IN [items |-> [n \in 1..Len(rows) |-> ItemWithCategories(rows[n])],
      pagination |-> [total |-> total, page |-> page, limit |-> limit,
                      pages |-> Ceil(total, limit)]]

GetItemsPageHandler ==
  /\ \E page \in PageInputs, limit \in LimitInputs :
       LET data == [page |-> page, limit |-> limit]
           invalid == validatePagination(page, limit)
       IN resp' = IF invalid # ""
                    THEN Resp("get-items", data, GetItemsPageStatus(invalid),
                              invalid, FALSE, {})
                    ELSE Resp("get-items", data, 200, "", FALSE,
                              getItemsPage(PageOf(page), LimitOf(limit)))
  /\ UNCHANGED <<shopTables, catalogTables, req, reader, recon, adder, clients, transactions>>

(* The pages specification: list reads of the items while items are added  *)
(* and deleted                                                             *)
NextPages ==
  \/ AddItemValidate
  \/ AddItemCommit
  \/ DeleteItemHandler
  \/ GetItemsPageHandler

SpecPages == InitCatalog /\ [][NextPages]_vars

(* The X-API-KEY header ------------------------------------------------- *)

(* request.headers.get("X-API-KEY"): "" is a missing header, "secret" the  *)
(* configured key                                                          *)
ApiKeys == {"", "wrong", "secret"}

(* validateApiKey: the message thrown, or "" *)
validateApiKey(apiKey) ==
  IF apiKey = "" THEN "API key is required"
  ELSE IF apiKey # "secret" THEN "Invalid API key"
  ELSE ""

(* The purchase handler on a request that does not carry the configured    *)
(* key: validateApiKey throws before request.json()                        *)
PurchaseKeyRejected ==
  /\ \E apiKey \in ApiKeys \ {"secret"} :
       resp' = PurchaseError([apiKey |-> apiKey], validateApiKey(apiKey), FALSE)
  /\ UNCHANGED <<shopTables, catalogTables, req, reader, recon, adder, clients, transactions>>

(* The update-inventory handler on such a request *)
UpdateInventoryKeyRejected ==
  /\ \E apiKey \in ApiKeys \ {"secret"} :
       resp' = Resp("update-inventory", [apiKey |-> apiKey],
                    UpdateInventoryStatus(validateApiKey(apiKey)),
                    validateApiKey(apiKey), FALSE, {})
  /\ UNCHANGED <<shopTables, catalogTables, req, reader, recon, adder, clients, transactions>>

(* request-service.js: the keep-alive handler.  Its catch block answers    *)
(* every error with status 500 and the body {error: "Failed..."}          *)
RequestServiceHandler ==
  /\ \E apiKey \in ApiKeys, fault \in BOOLEAN :
       LET data == [apiKey |-> apiKey]
       IN resp' = IF validateApiKey(apiKey) # ""
                    THEN Resp("request-service", data, 500, "Failed...", FALSE, {})
                  ELSE IF fault
                    THEN Resp("request-service", data, 500, "Failed...", TRUE, {})
                  ELSE Resp("request-service", data, 200, "", FALSE,
                            "Request processed correctly...")
  /\ UNCHANGED <<shopTables, catalogTables, req, reader, recon, adder, clients, transactions>>

(* The access specification: requests with and without the configured key *)
NextAccess ==
  \/ \E userId \in UserIds, cartItems \in InventoryCarts :
       Purchase(userId, cartItems)
  \/ PurchaseKeyRejected
  \/ UpdateInventoryKeyRejected
  \/ RequestServiceHandler
  \/ UpdateCreditsRequest
  \/ GetUserInventoryHandler

SpecAccess == InitCatalog /\ [][NextAccess]_vars

(* The history specification: purchases, then updates and deletes of the   *)
(* items bought.  The second cart offers item 2 below its catalog price.   *)
HistoryCarts == {<<Line(1, 1, 75)>>, <<Line(2, 2, 10)>>}

NextHistory ==
  \/ \E cartItems \in HistoryCarts : Purchase(2, cartItems)
  \/ UpdateItemHandler
  \/ DeleteItemHandler

SpecHistory == InitCatalog /\ [][NextHistory]_vars

----------------------------------------------------------------------------
(* Registration specification: concurrent reads for users not seen yet.   *)
(* User 2 is registered; a reconciliation for user_id 2 has left a row.   *)

InitRegistration ==
  /\ users = ShopUsers
  /\ users_audit = ShopUsersAudit
  /\ inventory = SetToBag({InvRow(2, 2, 2, 1)})
  /\ purchase_transactions = << >>
  /\ purchase_items = << >>
  /\ purchases_audit = << >>
  /\ categories = ShopCategories
  /\ categories_audit = << >>
  /\ items = ShopItems
  /\ item_categories = {<<1, 1>>, <<1, 2>>}
  /\ items_audit = << >>
  /\ req = [r \in 1..MaxReq |-> Idle]
  /\ reader = [k \in 1..MaxReaders |-> ReaderIdle]
  /\ recon = [pc |-> "idle", data |-> NoPayload]
  /\ adder = AdderIdle
  /\ clients = {}
  /\ transactions = {}
  /\ resp = NoResp

NextRegistration ==
  \/ \E k \in 1..MaxReaders : GetInventory(k)
  \/ \E k \in 1..MaxReaders : GetInventoryRegister(k)
  \/ \E k \in 1..MaxReaders : GetBag(k)
  \/ \E k \in 1..MaxReaders : GetBagRegister(k)
  \/ GetInventories
  \/ GetBags

SpecRegistration == InitRegistration /\ [][NextRegistration]_vars

----------------------------------------------------------------------------
(* Properties of the registration specification *)

(* The user_ids a finished read asked for *)
RequestedIds(r) ==
  IF r.op \in {"get-inventories", "get-bags"} THEN {r.input}
  ELSE IF r.op \in {"get-inventories-batch", "get-bags-batch"}
    THEN SeqToSet(r.input)
  ELSE {}

(* C11: under every interleaving of reads for a user_id not seen before,  *)
(* the users table never holds two rows with that user_id, a read that    *)
(* ends without a failed connection leaves exactly one, and the row has   *)
(* the default credits.                                                    *)
C11_OneRowPerUserId ==
  [][\A u \in UserIds :
       /\ Cardinality(UserRowsIn(users', u)) <= 1
       /\ \A i \in UserRowsIn(users', u) : users'[i].credits = DefaultCredits
       /\ (resp'.status # 0 /\ ~resp'.fault /\ u \in RequestedIds(resp'))
            => Cardinality(UserRowsIn(users', u)) = 1]_vars

(* Two reads raced: the INSERT of the second met the row of the first *)
C11_Witness ==
  /\ resp.op \in {"get-inventories", "get-bags"}
  /\ resp.status = 500 /\ ~resp.fault
  /\ Cardinality(UserRows(resp.input)) = 1

(* The entry of a read response for one user_id *)
EntriesFor(r, u) ==
  IF r.op \in {"get-inventories", "get-bags"} THEN {r.body}
  ELSE {entry \in r.body : entry.user_id = u}

(* C12: a read that finds its user_id unknown and answers 200 has added   *)
(* one users row with credits 100 and one users_audit row with action     *)
(* INSERT, and answers for that user with credits 100, an empty inventory *)
(* and an empty bag.                                                      *)
C12_LazyRegistration ==
  [][\A u \in UserIds :
       (resp'.status = 200 /\ u \in RequestedIds(resp') /\ UserRows(u) = {})
         => /\ users' = Append(users, [user_id |-> u, credits |-> DefaultCredits])
            /\ Len(users_audit') = Len(users_audit) + 1
            /\ users_audit'[Len(users_audit')].action_type = "INSERT"
            /\ \A entry \in EntriesFor(resp', u) :
                 /\ entry.credits = DefaultCredits
                 /\ "inventory" \in DOMAIN entry => entry.inventory = {}
                 /\ "bag" \in DOMAIN entry => entry.bag = {}]_vars

(* ---------------------------------------------------------------------- *)
(* C13: a successful delete-category of category c marks c deleted and     *)
(* inactive, soft-deletes exactly the non-deleted items whose only join    *)
(* row is the one to c, leaves every other item as it was, removes every   *)
(* join row of c, and appends one items_audit DELETE row per cascaded item *)
(* and one categories_audit DELETE row for c, all in the one step.         *)
(* ---------------------------------------------------------------------- *)
JoinsOf(i) == {pair \in item_categories : pair[2] = i}

OnlyCategory(i, c) == JoinsOf(i) = {<<c, i>>}

Cascaded(c) ==
  {i \in 1..Len(items) : items[i].is_deleted = 0 /\ OnlyCategory(i, c)}

DeleteCategoryStep ==
  /\ resp'.op = "delete-category"
  /\ resp'.status = 200
  /\ resp' # resp

LiveCategory(c) == c \in 1..Len(categories) /\ categories[c].is_deleted = 0

C19_AddItemNeedsLiveCategories ==
  [][resp'.op = "add-item" =>
       IF resp'.status = 201
         THEN /\ \A n \in 1..Len(resp'.input.categories) :
                   LiveCategory(resp'.input.categories[n])
              /\ Len(items') = Len(items) + 1
         ELSE UNCHANGED <<items, item_categories, items_audit>>
    ]_vars

(* ---------------------------------------------------------------------- *)
(* C14: an update or delete request for a category or item that has       *)
(* is_deleted = 1 is answered 400 and changes no catalog row and no audit  *)
(* row; and is_deleted never goes back from 1 to 0.                        *)
(* ---------------------------------------------------------------------- *)
CategoryEdits == {"update-category", "update-category-put", "delete-category"}

ItemEdits == {"update-item", "delete-item"}

EditOfDeleted ==
  \/ /\ resp'.op \in CategoryEdits
     /\ resp'.input.id \in 1..Len(categories)
     /\ categories[resp'.input.id].is_deleted = 1
  \/ /\ resp'.op \in ItemEdits
     /\ resp'.input.id \in 1..Len(items)
     /\ items[resp'.input.id].is_deleted = 1

StaysDeleted ==
  /\ \A c \in 1..Len(categories) :
       categories[c].is_deleted = 1 => categories'[c].is_deleted = 1
  /\ \A i \in 1..Len(items) :
       items[i].is_deleted = 1 => items'[i].is_deleted = 1

C14_DeletedRowsImmutable ==
  [][/\ StaysDeleted
     /\ EditOfDeleted => /\ resp'.status = 400
                         /\ UNCHANGED catalogTables]_vars

(* ---------------------------------------------------------------------- *)
(* C15: a purchase request moves through validation and credit check,      *)
(* then item verification, then the commit, each once and in this order;   *)
(* a request that fails a stage ends there, writes nothing and does not    *)
(* start again; and a commit is made only by a request whose data are well *)
(* formed, whose checked balance covers the total and whose items are all  *)
(* available.                                                              *)
(* ---------------------------------------------------------------------- *)
Unavailable(id) ==
  \/ id \notin 1..Len(items)
  \/ items[id].is_active = 0
  \/ items[id].is_deleted = 1

NamesUnavailable(cart) == \E n \in 1..Len(cart) : Unavailable(cart[n].item_id)

WellFormed(cart) ==
  /\ cart # << >>
  /\ \A n \in 1..Len(cart) :
       cart[n].item_id > 0 /\ cart[n].quantity > 0 /\ cart[n].price > 0

StageMoves ==
  {<<"idle", "creditsChecked">>, <<"idle", "done">>,
   <<"creditsChecked", "itemsVerified">>, <<"creditsChecked", "done">>,
   <<"itemsVerified", "done">>}

C15_PurchaseStages ==
  [][/\ \A r \in 1..MaxReq :
          /\ req'[r].pc # req[r].pc => <<req[r].pc, req'[r].pc>> \in StageMoves
          /\ (req[r].pc \in {"idle", "creditsChecked"} /\ req'[r].pc = "done")
               => /\ resp'.status >= 400
                  /\ UNCHANGED shopTables
     /\ purchase_transactions' # purchase_transactions =>
          \E r \in 1..MaxReq :
            /\ req[r].pc = "itemsVerified"
            /\ req'[r].pc = "done"
            /\ WellFormed(req[r].items)
            /\ req[r].userCredits >= CartSum(req[r].items)
            /\ ~NamesUnavailable(req[r].items)
    ]_vars

(* One request has committed while another has ended *)
C15_Witness ==
  /\ resp.op = "purchase"
  /\ resp.status = 200
  /\ Len(purchase_transactions) = 1
  /\ \A r \in 1..MaxReq : req[r].pc = "done"

(* ---------------------------------------------------------------------- *)
(* C16: a purchase request whose cart names an item that does not exist,   *)
(* is inactive or is soft-deleted is never answered 200 and none of its    *)
(* steps changes users, inventory, purchase_transactions, purchase_items   *)
(* or an audit table; once its items are looked at it ends with an error.  *)
(* ---------------------------------------------------------------------- *)
C16_UnavailableItemRejected ==
  [][/\ (resp'.op = "purchase" /\ NamesUnavailable(resp'.input.items))
          => /\ resp'.status # 200
             /\ UNCHANGED shopTables
     /\ \A r \in 1..MaxReq :
          (/\ req[r].pc = "creditsChecked"
           /\ NamesUnavailable(req[r].items)
           /\ req'[r] # req[r])
            => /\ req'[r].pc = "done"
               /\ resp'.status >= 400
    ]_vars

(* verifyItems has refused the cart of a user whose credits suffice *)
C16_Witness ==
  /\ resp.op = "purchase"
  /\ NamesUnavailable(resp.input.items)
  /\ WellFormed(resp.input.items)
  /\ resp.error \in {"One or more items not found",
                     "Item is not available for purchase"}

(* ---------------------------------------------------------------------- *)
(* C18: in every reachable state the inventory table holds at most one     *)
(* row for each pair of user and item.                                     *)
(* ---------------------------------------------------------------------- *)
RowsOfPair(userId, itemId) ==
  SumCopies(inventory, InventoryRows(inventory, userId, itemId))

C18_OneRowPerUserItem ==
  \A row \in BagToSet(inventory) : RowsOfPair(row.user_id, row.item_id) = 1

(* ---------------------------------------------------------------------- *)
(* C17: a committed purchase changes the buyer's inventory line by line as *)
(* an upsert: a pair of user and item that has a row keeps it with         *)
(* total_quantity grown by the line's quantity and quantity_in_bag as it   *)
(* was; a pair without a row gets one row with the line's quantity and     *)
(* quantity_in_bag = 0; the rows of every other pair are unchanged.        *)
(* ---------------------------------------------------------------------- *)
Grown(row, quantity) ==
  [row EXCEPT !.total_quantity = row.total_quantity + quantity]

C17_PurchaseUpsert ==
  [][(resp'.op = "purchase" /\ resp'.status = 200 /\ NewTransaction) =>
       LET userId == resp'.input.user_id
           cart == resp'.input.items
           bought == {cart[n].item_id : n \in 1..Len(cart)}
       IN /\ \A n \in 1..Len(cart) :
               LET rows == InventoryRows(inventory, userId, cart[n].item_id)
                   after == InventoryRows(inventory', userId, cart[n].item_id)
               IN IF rows # {}
                    THEN /\ after = {Grown(row, cart[n].quantity) : row \in rows}
                         /\ \A row \in rows :
                              Copies(inventory', Grown(row, cart[n].quantity))
                                = Copies(inventory, row)
                    ELSE /\ after = {InvRow(userId, cart[n].item_id,
                                            cart[n].quantity, 0)}
                         /\ SumCopies(inventory', after) = 1
          /\ \A row \in BagToSet(inventory) \cup BagToSet(inventory') :
               (row.user_id # userId \/ row.item_id \notin bought)
                 => Copies(inventory', row) = Copies(inventory, row)
    ]_vars

(* ---------------------------------------------------------------------- *)
(* C20: the audit tables are append-only: whatever request runs, every row *)
(* that categories_audit, items_audit, users_audit or purchases_audit      *)
(* holds before a step is still there, in its place and unchanged, after.  *)
(* ---------------------------------------------------------------------- *)
IsPrefix(old, new) ==
  /\ Len(old) <= Len(new)
  /\ \A n \in 1..Len(old) : new[n] = old[n]

C20_AuditAppendOnly ==
  [][/\ IsPrefix(categories_audit, categories_audit')
     /\ IsPrefix(items_audit, items_audit')
     /\ IsPrefix(users_audit, users_audit')
     /\ IsPrefix(purchases_audit, purchases_audit')]_vars

(* Each of the four audit tables has grown *)
C20_Witness ==
  /\ Len(categories_audit) > Len(CatalogCategoriesAudit)
  /\ Len(items_audit) > Len(CatalogItemsAudit)
  /\ Len(users_audit) > Len(ShopUsersAudit)
  /\ Len(purchases_audit) > 0

(* ---------------------------------------------------------------------- *)
(* C21: the purchase_items rows a purchase writes carry the prices of the  *)
(* request's lines, and no step of any request, an update of an item's     *)
(* price and a delete of an item included, changes or removes a row that   *)
(* purchase_transactions or purchase_items already holds.                  *)
(* ---------------------------------------------------------------------- *)
C21_PurchaseHistoryImmutable ==
  [][/\ IsPrefix(purchase_transactions, purchase_transactions')
     /\ IsPrefix(purchase_items, purchase_items')
     /\ (resp'.op = "purchase" /\ resp'.status = 200 /\ NewTransaction) =>
          LET cart == resp'.input.items
              written == SubSeq(purchase_items', Len(purchase_items) + 1,
                                Len(purchase_items'))
          IN /\ Len(written) = Len(cart)
             /\ \A n \in 1..Len(cart) :
                  /\ written[n].item_id = cart[n].item_id
                  /\ written[n].item_price = cart[n].price
     /\ resp'.op # "purchase" =>
          Len(purchase_items') = Len(purchase_items)
    ]_vars

(* The price of an item bought at 75 has been set to 50 afterwards, and an *)
(* item bought below its catalog price keeps the price of the request      *)
C21_Witness ==
  /\ resp.op = "update-item"
  /\ resp.status = 200
  /\ resp.input.id = 1
  /\ items[1].price = 50
  /\ \E n \in 1..Len(purchase_items) :
       purchase_items[n].item_id = 1 /\ purchase_items[n].item_price = 75
  /\ \E n \in 1..Len(purchase_items) :
       purchase_items[n].item_id = 2 /\ purchase_items[n].item_price = 10

(* ---------------------------------------------------------------------- *)
(* C22: a valid add-category request is answered 201 with the id and name  *)
(* of the new category and its is_active as the row holds it, the number   *)
(* 1; the step appends exactly one categories row (is_active 1,            *)
(* is_deleted 0) and exactly one categories_audit row for it, with         *)
(* action_type INSERT and old_values null.                                 *)
(* ---------------------------------------------------------------------- *)
AddCategoryStep == resp'.op = "add-category-form" /\ resp' # resp

ValidCategoryForm(data) == data.name # "" /\ data.user_id # 0

CategoryAdded(isActive) ==
  LET id == Len(categories) + 1
  IN /\ resp'.status = 201
     /\ Len(categories') = id
     /\ SubSeq(categories', 1, Len(categories)) = categories
     /\ categories'[id].is_active = 1
     /\ categories'[id].is_deleted = 0
     /\ resp'.body.id = id
     /\ resp'.body.name = categories'[id].name
     /\ resp'.body.is_active = isActive
     /\ Len(categories_audit') = Len(categories_audit) + 1
     /\ SubSeq(categories_audit', 1, Len(categories_audit)) = categories_audit
     /\ categories_audit'[Len(categories_audit')].category_id = id
     /\ categories_audit'[Len(categories_audit')].action_type = "INSERT"
     /\ categories_audit'[Len(categories_audit')].old_values = "null"

C23_DeleteReturnsUpdatedRow ==
  [][DeleteCategoryStep =>
       LET c == resp'.input.id
       IN /\ resp'.body.id = c
          /\ resp'.body.name = categories'[c].name
          /\ resp'.body.is_active = categories'[c].is_active
          /\ resp'.body.is_deleted = categories'[c].is_deleted
          /\ resp'.body.is_deleted = 1
          /\ resp'.body.is_active = 0]_vars

(* ---------------------------------------------------------------------- *)
(* C24: an update-credits request for an existing user with an amount of   *)
(* zero or more sets that user's credits to exactly the amount and         *)
(* appends, in the same step, one users_audit UPDATE row with the old and  *)
(* the new credits, leaving every other row alone; an amount that is       *)
(* negative or not a number is answered 400 and an unknown user 404, and   *)
(* both leave users and users_audit unchanged.                             *)
(* ---------------------------------------------------------------------- *)
UpdateCreditsStep == resp'.op = "update-credits" /\ resp' # resp

CreditsSet(userId, amount) ==
  LET id == FirstUserRow(userId)
  IN /\ resp'.status = 200
     /\ Len(users') = Len(users)
     /\ users'[id].credits = amount
     /\ \A i \in 1..Len(users) :
          /\ users'[i].user_id = users[i].user_id
          /\ i # id => users'[i] = users[i]
     /\ Len(users_audit') = Len(users_audit) + 1
     /\ SubSeq(users_audit', 1, Len(users_audit)) = users_audit
     /\ users_audit'[Len(users_audit')] =
          [user_id |-> id, action_type |-> "UPDATE",
           old_values |-> [credits |-> users[id].credits],
           new_values |-> [credits |-> amount]]

C25_ClientsClosed == clients = {}

(* ---------------------------------------------------------------------- *)
(* C26: when a statement inside a mutation's transaction fails, the        *)
(* handler rolls back and the error that reaches the caller is the         *)
(* statement's error, unchanged, also when the rollback itself fails.      *)
(* ---------------------------------------------------------------------- *)
C26_OriginalErrorReachesCaller ==
  resp.fault => resp.error = "Statement failed"

(* ---------------------------------------------------------------------- *)
(* C27: a request with malformed, missing or out-of-range input is         *)
(* rejected before any database statement is executed: a reconciliation    *)
(* that has issued the DELETE of the user's inventory is not rejected for  *)
(* its input afterwards.                                                   *)
(* ---------------------------------------------------------------------- *)
C27_RejectedBeforeAnyStatement ==
  [][(recon.pc = "deleted" /\ recon'.pc = "idle")
       => (resp'.status = 200 \/ resp'.fault)]_vars

(* ---------------------------------------------------------------------- *)
(* C30: an update-inventory request in which the bag quantity of an item   *)
(* exceeds its total quantity is answered with status 400.                 *)
(* ---------------------------------------------------------------------- *)
C30_BagOverTotalIs400 ==
  [][(ReconciliationStep
        /\ validateInventoryData(recon.data) = ""
        /\ \E i \in 1..Len(recon.data.inventory) :
             QuantityInBag(recon.data.bag, recon.data.inventory[i])
               > ParseInt(recon.data.inventory[i].half))
       => resp'.status = 400]_vars

(* ---------------------------------------------------------------------- *)
(* C28: a list read of items with page p >= 1 and 1 <= limit <= 24 over a  *)
(* store with T non-deleted items returns pagination.total = T,            *)
(* pagination.pages = ceil(T / limit) and exactly                          *)
(* min(limit, max(0, T - (p-1)*limit)) items; a page below 1 or a limit    *)
(* outside 1..24 is rejected with 400.                                     *)
(* ---------------------------------------------------------------------- *)
Smaller(a, b) == IF a < b THEN a ELSE b

Larger(a, b) == IF a > b THEN a ELSE b

C28_Pagination ==
  [][(resp'.op = "get-items" /\ resp' # resp) =>
       LET p == PageOf(resp'.input.page)
           limit == LimitOf(resp'.input.limit)
           T == Cardinality({i \in 1..Len(items) : items[i].is_deleted = 0})
       IN IF p < 1 \/ limit < 1 \/ limit > 24
            THEN resp'.status = 400
            ELSE /\ resp'.status = 200
                 /\ resp'.body.pagination.total = T
                 /\ resp'.body.pagination.pages * limit >= T
                 /\ (resp'.body.pagination.pages - 1) * limit < T
                 /\ resp'.body.pagination.pages >= 0
                 /\ Len(resp'.body.items)
                      = Smaller(limit, Larger(0, T - (p - 1) * limit))
                 /\ \A n \in 1..Len(resp'.body.items) :
                      items[resp'.body.items[n].id].is_deleted = 0]_vars

(* Three items are live and the second page of two is read: one item and   *)
(* two pages                                                               *)
C28_Witness ==
  /\ resp.op = "get-items"
  /\ resp.status = 200
  /\ resp.input = [page |-> <<2>>, limit |-> <<2>>]
  /\ Cardinality({i \in 1..Len(items) : items[i].is_deleted = 0}) = 3
  /\ Len(resp.body.items) = 1
  /\ resp.body.pagination.pages = 2

(* ---------------------------------------------------------------------- *)
(* C29: every endpoint answers a request whose X-API-KEY header is         *)
(* missing or differs from the configured key with status 403, and         *)
(* performs no database access for it.                                     *)
(* ---------------------------------------------------------------------- *)
KeyRejected(r) ==
  /\ r.op \in {"purchase", "update-inventory", "request-service"}
  /\ r.input \in [apiKey : ApiKeys \ {"secret"}]

C29_BadKeyIs403 ==
  [][(resp' # resp /\ KeyRejected(resp'))
       => (resp'.status = 403 /\ UNCHANGED <<shopTables, catalogTables>>)]_vars

(* ---------------------------------------------------------------------- *)
(* C31: the categories_audit row written by a category delete, and each    *)
(* items_audit row written for a cascaded item, records as old_values the  *)
(* values the row had before the delete (is_deleted false, is_active as it *)
(* was) and as new_values is_active false and is_deleted true.             *)
(* ---------------------------------------------------------------------- *)
C31_DeleteAuditSnapshot ==
  [][DeleteCategoryStep =>
       LET c == resp'.input.id
           audit == categories_audit'[Len(categories_audit')]
       IN /\ Len(categories_audit') = Len(categories_audit) + 1
          /\ audit.action_type = "DELETE"
          /\ audit.old_values.is_deleted = (categories[c].is_deleted = 1)
          /\ audit.old_values.is_active = (categories[c].is_active = 1)
          /\ audit.new_values.is_deleted = TRUE
          /\ audit.new_values.is_active = FALSE
          /\ \A n \in (Len(items_audit) + 1)..Len(items_audit') :
               LET row == items_audit'[n]
               IN /\ row.action_type = "DELETE"
                  /\ row.old_values.is_deleted = (items[row.item_id].is_deleted = 1)
                  /\ row.old_values.is_active = (items[row.item_id].is_active = 1)
                  /\ row.new_values.is_deleted = TRUE
                  /\ row.new_values.is_active = FALSE]_vars

(* ---------------------------------------------------------------------- *)
(* C32: a user-inventory or bag read, single or batch, for user_ids that   *)
(* are all registered when the handler looks them up leaves every table    *)
(* unchanged: no user, inventory or audit row is created or modified.      *)
(* ---------------------------------------------------------------------- *)
ReadOps == {"get-inventories", "get-bags", "get-inventories-batch", "get-bags-batch"}

IdsRead(r) ==
  IF r.op \in {"get-inventories", "get-bags"} THEN {r.input}
  ELSE {r.input[n] : n \in 1..Len(r.input)}

FindsItsUsers ==
  \A k \in 1..MaxReaders : reader[k].pc = "idle" \/ reader'[k] = reader[k]

C32_ReadOfRegisteredUser ==
  [][(/\ resp' # resp
      /\ resp'.op \in ReadOps
      /\ FindsItsUsers
      /\ \A u \in IdsRead(resp') : UserRows(u) # {})
       => UNCHANGED <<shopTables, catalogTables>>]_vars

(* Both users are registered, the first by a read, and a batch read of     *)
(* both has been answered                                                  *)
C32_Witness ==
  /\ resp.op = "get-inventories-batch"
  /\ resp.status = 200
  /\ resp.input = <<2, 1>>
  /\ Len(users) = 2
  /\ Len(users_audit) = 2
  /\ \E k \in 1..MaxReaders : reader[k].pc = "registerNewUser"

(* ---------------------------------------------------------------------- *)
(* C33: as long as no update-credits request has changed a balance, after  *)
(* any interleaving of purchase requests each user's credits equal the     *)
(* starting balance 100 minus the sum of total_credits_spent over the      *)
(* user's committed purchase_transactions rows.                            *)
(* ---------------------------------------------------------------------- *)
RECURSIVE SpentBy(_, _)
SpentBy(userId, n) ==
  IF n = 0 THEN 0
  ELSE SpentBy(userId, n - 1)
         + (IF purchase_transactions[n].user_id = userId
              THEN purchase_transactions[n].total_credits_spent ELSE 0)

C33_CreditsConserved ==
  CreditUpdates = 0 =>
    \A i \in 1..Len(users) :
      users[i].credits
        = DefaultCredits - SpentBy(users[i].user_id, Len(purchase_transactions))

(* ---------------------------------------------------------------------- *)
(* C34: every transaction opened by a mutating handler ends in exactly one *)
(* commit or one rollback before the handler returns, on every path,       *)
(* also on the update paths on which no field changes: no handler has      *)
(* returned with its transaction open.                                     *)
(* ---------------------------------------------------------------------- *)
C34_TransactionsEnded == transactions = {}

(* ---------------------------------------------------------------------- *)
(* C35: after a committed purchase by user u of an active, non-deleted     *)
(* item i, a get-inventories read for u lists i with a total_quantity      *)
(* that includes the purchased quantity, whatever the relation between     *)
(* the user's row id and user_id.                                          *)
(* ---------------------------------------------------------------------- *)
TransactionsOf(userId) ==
  {t \in 1..Len(purchase_transactions) :
     purchase_transactions[t].user_id = userId}

RECURSIVE BoughtQuantity(_, _, _)
BoughtQuantity(userId, itemId, n) ==
  IF n = 0 THEN 0
  ELSE BoughtQuantity(userId, itemId, n - 1)
         + (IF /\ purchase_items[n].item_id = itemId
               /\ purchase_items[n].transaction_id \in TransactionsOf(userId)
              THEN purchase_items[n].quantity ELSE 0)

C35_PurchasedItemsListed ==
  [][(resp' # resp /\ resp'.op = "get-inventories" /\ resp'.status = 200) =>
       \A i \in 1..Len(items) :
         (/\ items[i].is_active = 1
          /\ items[i].is_deleted = 0
          /\ BoughtQuantity(resp'.input, i, Len(purchase_items)) > 0)
           => \E x \in resp'.body.inventory :
                /\ x.id = i
                /\ x.total_quantity
                     >= BoughtQuantity(resp'.input, i, Len(purchase_items))]_vars

(* ---------------------------------------------------------------------- *)
(* C36: in every reachable state, after any interleaving of add-item and   *)
(* cascading delete-category requests, every item with is_deleted = 0 has  *)
(* at least one item_categories row that references a category with        *)
(* is_deleted = 0.                                                         *)
(* ---------------------------------------------------------------------- *)
C36_LiveItemsHaveLiveCategory ==
  \A i \in 1..Len(items) :
    items[i].is_deleted = 0 =>
      \E c \in 1..Len(categories) :
        <<c, i>> \in item_categories /\ categories[c].is_deleted = 0

(* ---------------------------------------------------------------------- *)
(* C37: for each category and for each item, at most one audit row with    *)
(* action_type DELETE is ever written, under any sequence or interleaving  *)
(* of delete-category and delete-item requests, an item deleted both       *)
(* directly and by a cascade included.                                     *)
(* ---------------------------------------------------------------------- *)
DeleteAudits(audit, key, id) ==
  {n \in 1..Len(audit) : audit[n][key] = id /\ audit[n].action_type = "DELETE"}

C38_RejectedOnlyIfUnavailable ==
  [][\A r \in 1..MaxReq :
       (/\ req[r].pc = "creditsChecked"
        /\ req'[r] # req[r]
        /\ WellFormed(req[r].items)
        /\ ~NamesUnavailable(req[r].items))
         => /\ req'[r].pc = "itemsVerified"
            /\ resp'.status < 400
    ]_vars

(* ---------------------------------------------------------------------- *)
(* C39: in every reachable state, for every user and item, the inventory   *)
(* total_quantity does not exceed the sum of the quantities of that item   *)
(* in the user's committed purchases.                                      *)
(* ---------------------------------------------------------------------- *)
C39_InventoryWithinPurchases ==
  \A row \in BagToSet(inventory) :
    row.total_quantity
      <= BoughtQuantity(row.user_id, row.item_id, Len(purchase_items))
====
